---------------------------- MODULE Spec2Model ----------------------------
(***************************************************************************)
(* Staking manager of the reward package (src/reward/staking_manager.go,   *)
(* which also holds staking_info.go): the singleton StakingManager, the    *)
(* cache -> DB -> address book resolution of a StakingInfo, the Gini       *)
(* fix-up, the migration prerequisite and the chain-head subscription.     *)
(*                                                                         *)
(* Conventions of the model                                                *)
(*  - A *StakingInfo is an object id into `heap`; 0 is the nil pointer.    *)
(*    The cache holds object ids, the DB holds encoded values (copies).    *)
(*  - float64 Gini values are held in hundredths (the code rounds to two   *)
(*    decimals): 0.3 is 30, the sentinel -1.0 is -100; NaN is its own code.*)
(*  - Amounts are scaled: TLC integers are 32 bit, so KLAY and             *)
(*    maxStakingLimit are small numbers with the same roles.               *)
(***************************************************************************)
EXTENDS Integers, Sequences, FiniteSets, TLC

(***************************************************************************)
(* Bounds of the model                                                     *)
(***************************************************************************)
\* params.StakingUpdateInterval(): the length of a staking interval
StakingUpdateInterval == 2
\* block numbers that callers pass in are 0..MaxBlockNum
MaxBlockNum == 5
\* capacity of the staking info cache
maxStakingCache == 1
\* number of StakingManagerSubscribe calls that are explored
MaxSubscribe == 2
\* number of chain head events that are delivered
MaxEvents == 2
\* number of concurrent callers of NewStakingManager
NumCallers == 2
\* the longest council of the snapshots whose methods are called
MaxCouncil == 3

(***************************************************************************)
(* Program constants                                                       *)
(***************************************************************************)
chainHeadChanSize == 100
\* DefaultGiniCoefficient = -1.0, in hundredths
DefaultGiniCoefficient == -100
\* the value float64 division 0/0 produces; it compares false with everything
NaN == 9999
\* scaled stand-ins of 100000000000 and of params.KLAY (10^18)
maxStakingLimit == 8
KLAY == 2
AddrNotFoundInCouncilNodes == -1

BlockNums == 0 .. MaxBlockNum

(***************************************************************************)
(* params: staking interval arithmetic                                     *)
(***************************************************************************)
IsStakingUpdateInterval(blockNum) == (blockNum % StakingUpdateInterval) = 0

CalcStakingBlockNumber(blockNum) ==
  IF blockNum <= 2 * StakingUpdateInterval
    THEN 0
    ELSE IF (blockNum % StakingUpdateInterval) = 0
           THEN blockNum - 2 * StakingUpdateInterval
           ELSE blockNum - StakingUpdateInterval - (blockNum % StakingUpdateInterval)

(***************************************************************************)
(* StakingInfo values and the pure functions of staking_info.go            *)
(***************************************************************************)
\* "Gini >= 0" on a float64: false for NaN
GiniGE0(g) == g # NaN /\ g >= 0

\* a consolidation that keeps the amount of the first record of a reward
\* address and does not add those of the later ones
RECURSIVE consolidateNoSum(_, _, _)
consolidateNoSum(s, j, nodes) ==
  IF j > Len(s.CouncilNodeAddrs)
    THEN nodes
    ELSE LET rewardAddr == s.CouncilRewardAddrs[j]
             seen == {i \in 1 .. Len(nodes) : nodes[i].RewardAddr = rewardAddr}
         IN  IF seen = {}
               THEN consolidateNoSum(s, j + 1,
                      Append(nodes, [NodeAddrs     |-> <<s.CouncilNodeAddrs[j]>>,
                                     StakingAddrs  |-> <<s.CouncilStakingAddrs[j]>>,
                                     RewardAddr    |-> rewardAddr,
                                     StakingAmount |-> s.CouncilStakingAmounts[j]]))
               ELSE LET idx == CHOOSE i \in seen : TRUE
                    IN  consolidateNoSum(s, j + 1,
                          [nodes EXCEPT
                             ![idx].NodeAddrs    = Append(@, s.CouncilNodeAddrs[j]),
                             ![idx].StakingAddrs = Append(@, s.CouncilStakingAddrs[j])])

\* GetConsolidatedStakingInfo: group the records by reward address, in order
\* of first appearance.  rewardIndex is found by searching c.nodes, which
\* holds one node per reward address.
RECURSIVE consolidate(_, _, _)
consolidate(s, j, nodes) ==
  IF j > Len(s.CouncilNodeAddrs)
    THEN nodes
    ELSE LET nodeAddr      == s.CouncilNodeAddrs[j]
             stakingAddr   == s.CouncilStakingAddrs[j]
             rewardAddr    == s.CouncilRewardAddrs[j]
             stakingAmount == s.CouncilStakingAmounts[j]
             seen == {i \in 1 .. Len(nodes) : nodes[i].RewardAddr = rewardAddr}
         IN  IF seen = {}
               THEN consolidate(s, j + 1,
                      Append(nodes, [NodeAddrs     |-> <<nodeAddr>>,
                                     StakingAddrs  |-> <<stakingAddr>>,
                                     RewardAddr    |-> rewardAddr,
                                     StakingAmount |-> stakingAmount]))
               ELSE LET idx == CHOOSE i \in seen : TRUE
                    IN  consolidate(s, j + 1,
                          [nodes EXCEPT
                             ![idx].NodeAddrs     = Append(@, nodeAddr),
                             ![idx].StakingAddrs  = Append(@, stakingAddr),
                             ![idx].StakingAmount = @ + stakingAmount])

GetConsolidatedStakingInfo(s) == consolidate(s, 1, <<>>)

\* the loop of CalcGiniCoefficient over the sorted amounts; i is 0-based
RECURSIVE giniLoop(_, _, _, _)
giniLoop(sorted, i, sumOfAbsoluteDifferences, subSum) ==
  IF i >= Len(sorted)
    THEN [sum |-> sumOfAbsoluteDifferences, subSum |-> subSum]
    ELSE LET x    == sorted[i + 1]
             temp == x * i - subSum
         IN  giniLoop(sorted, i + 1, sumOfAbsoluteDifferences + temp, subSum + x)

\* sort.Sort(stakingAmount): the amounts in ascending order
insertSorted(sorted, x) ==
  LET before == SelectSeq(sorted, LAMBDA a : a <= x)
      after  == SelectSeq(sorted, LAMBDA a : a > x)
  IN  before \o <<x>> \o after

RECURSIVE sortAscending(_, _)
sortAscending(rest, sorted) ==
  IF rest = <<>>
    THEN sorted
    ELSE sortAscending(Tail(rest), insertSorted(sorted, Head(rest)))

\* a Gini calculation that accumulates over the amounts in the given order
CalcGiniCoefficientNoSort(stakingAmount) ==
  LET acc == giniLoop(stakingAmount, 0, 0, 0)
      d   == acc.subSum * Len(stakingAmount)
  IN  IF d = 0 THEN NaN ELSE (200 * acc.sum + d) \div (2 * d)

\* CalcGiniCoefficient: sort, accumulate, divide, round half away from zero to
\* two decimals.  0/0 is NaN.  The result is in hundredths.
CalcGiniCoefficient(stakingAmount) ==
  LET sorted == sortAscending(stakingAmount, <<>>)
      acc    == giniLoop(sorted, 0, 0, 0)
      d      == acc.subSum * Len(stakingAmount)
  IN  IF d = 0 THEN NaN ELSE (200 * acc.sum + d) \div (2 * d)

RECURSIVE amountsFrom(_, _, _)
amountsFrom(nodes, i, minStake) ==
  IF i > Len(nodes)
    THEN <<>>
    ELSE IF nodes[i].StakingAmount >= minStake
           THEN <<nodes[i].StakingAmount>> \o amountsFrom(nodes, i + 1, minStake)
           ELSE amountsFrom(nodes, i + 1, minStake)

\* a floor that leaves out the nodes whose amount equals minStake
CalcGiniCoefficientMinStakeStrict(c, minStake) ==
  LET amounts == amountsFrom(c, 1, minStake + 1)
  IN  IF Len(amounts) = 0 THEN DefaultGiniCoefficient ELSE CalcGiniCoefficient(amounts)

CalcGiniCoefficientMinStake(c, minStake) ==
  LET amounts == amountsFrom(c, 1, minStake)
  IN  IF Len(amounts) = 0 THEN DefaultGiniCoefficient ELSE CalcGiniCoefficient(amounts)


(***************************************************************************)
(* Serialization (EncodeRLP / DecodeRLP): Gini travels as the bit pattern  *)
(* of the float64, an unsigned integer: sign bit plus magnitude.           *)
(***************************************************************************)
SignBit == 2 ^ 16

Float64bits(g) == IF g < 0 THEN SignBit + (0 - g) ELSE g

Float64frombits(b) == IF b >= SignBit THEN 0 - (b - SignBit) ELSE b

EncodeRLP(s) ==
  [BlockNum              |-> s.BlockNum,
   CouncilNodeAddrs      |-> s.CouncilNodeAddrs,
   CouncilStakingAddrs   |-> s.CouncilStakingAddrs,
   CouncilRewardAddrs    |-> s.CouncilRewardAddrs,
   KIRAddr               |-> s.KIRAddr,
   PoCAddr               |-> s.PoCAddr,
   UseGini               |-> s.UseGini,
   Gini                  |-> Float64bits(s.Gini),
   CouncilStakingAmounts |-> s.CouncilStakingAmounts]

\* a mutant of DecodeRLP: the Gini is converted as a number, not reinterpreted
DecodeRLPConvertGini(dec) ==
  [BlockNum              |-> dec.BlockNum,
   CouncilNodeAddrs      |-> dec.CouncilNodeAddrs,
   CouncilStakingAddrs   |-> dec.CouncilStakingAddrs,
   CouncilRewardAddrs    |-> dec.CouncilRewardAddrs,
   KIRAddr               |-> dec.KIRAddr,
   PoCAddr               |-> dec.PoCAddr,
   UseGini               |-> dec.UseGini,
   Gini                  |-> dec.Gini,
   CouncilStakingAmounts |-> dec.CouncilStakingAmounts]

DecodeRLP(dec) ==
  [BlockNum              |-> dec.BlockNum,
   CouncilNodeAddrs      |-> dec.CouncilNodeAddrs,
   CouncilStakingAddrs   |-> dec.CouncilStakingAddrs,
   CouncilRewardAddrs    |-> dec.CouncilRewardAddrs,
   KIRAddr               |-> dec.KIRAddr,
   PoCAddr               |-> dec.PoCAddr,
   UseGini               |-> dec.UseGini,
   Gini                  |-> Float64frombits(dec.Gini),
   CouncilStakingAmounts |-> dec.CouncilStakingAmounts]

(***************************************************************************)
(* The collaborators: chain, state, address book contract, governance.     *)
(* History is immutable, so what they hold at a block is a fixed function  *)
(* of the block number; what varies per call is whether they answer.  A    *)
(* call meets at most one fault: the steps of a resolution are sequential  *)
(* and each fault ends it, so a second fault could not be observed.        *)
(***************************************************************************)
Faults == {"none", "noBlock", "noState", "noUseGini", "writeErr", "noMinStaking"}

\* the faults of the address-book derivation, and the error each one yields
DeriveFaults == {"noBlock", "noState", "noUseGini"}

NoErr == "nil"
ErrStakingManagerNotSet == "staking manager is not set"
ErrBlockNotFound == "Failed to get the block by the given number"
ErrStateAt == "state unavailable"
ErrGovernance == "governance query failed"
ErrDBWrite == "db write failed"
ErrDBNotFound == "db entry not found"
ErrAddrNotInStakingInfo == "Address is not in stakingInfo"

\* the three kinds of interval that the chain of the model holds
Period(blockNum) == (blockNum \div StakingUpdateInterval) % 3

\* the registrations the address book contract returns: N1 and N2 share R1
AddressBookNodeAddrs    == <<"N1", "N2", "N3", "N4">>
AddressBookStakingAddrs == <<"S1", "S2", "S3", "S4">>
AddressBookRewardAddrs  == <<"R1", "R1", "R3", "R4">>
AddressBookKIRAddr      == "KIR"
AddressBookPoCAddr      == "PoC"

\* statedb.GetBalance(stakingAddr) at the state of block blockNum, in peb
GetBalance(blockNum, stakingAddr) ==
  LET i == CHOOSE j \in 1 .. Len(AddressBookStakingAddrs) :
             AddressBookStakingAddrs[j] = stakingAddr
  IN  CASE Period(blockNum) = 0 -> <<11, 14, 6, 12>>[i]
        [] Period(blockNum) = 1 -> <<40, 3, 9, 0>>[i]
        [] OTHER                -> <<0, 0, 0, 0>>[i]

\* helper.GetItemAtNumberByIntKey(blockNum, params.UseGiniCoeff)
UseGiniCoeffAt(blockNum) == Period(blockNum) # 1

\* governanceHelper.GetMinimumStakingAtNumber(number)
GetMinimumStakingAtNumber(number) == IF Period(number) = 0 THEN 5 ELSE 0

\* the balances in KLAY, without the cap
RECURSIVE getStakingAmountsNoCap(_, _, _)
getStakingAmountsNoCap(blockNum, stakingAddrs, i) ==
  IF i > Len(stakingAddrs)
    THEN <<>>
    ELSE <<GetBalance(blockNum, stakingAddrs[i]) \div KLAY>>
         \o getStakingAmountsNoCap(blockNum, stakingAddrs, i + 1)

\* the loop of newStakingInfo over stakingAddrs: the balance in KLAY, capped
RECURSIVE getStakingAmounts(_, _, _)
getStakingAmounts(blockNum, stakingAddrs, i) ==
  IF i > Len(stakingAddrs)
    THEN <<>>
    ELSE LET tempStakingAmount == GetBalance(blockNum, stakingAddrs[i]) \div KLAY
         IN  <<IF tempStakingAmount > maxStakingLimit
                 THEN maxStakingLimit
                 ELSE tempStakingAmount>>
             \o getStakingAmounts(blockNum, stakingAddrs, i + 1)

newEmptyStakingInfo(blockNum) ==
  [BlockNum              |-> blockNum,
   CouncilNodeAddrs      |-> <<>>,
   CouncilStakingAddrs   |-> <<>>,
   CouncilRewardAddrs    |-> <<>>,
   KIRAddr               |-> "",
   PoCAddr               |-> "",
   UseGini               |-> FALSE,
   Gini                  |-> DefaultGiniCoefficient,
   CouncilStakingAmounts |-> <<>>]

\* a mutant of newStakingInfo: a state that cannot be opened yields an empty
\* StakingInfo and no error
newStakingInfoEmptyOnStateErr(fault, blockNum, nodeAddrs, stakingAddrs, rewardAddrs, KIRAddr, PoCAddr) ==
  IF fault = "noBlock"
    THEN [info |-> newEmptyStakingInfo(blockNum), err |-> ErrBlockNotFound]
  ELSE IF fault = "noState"
    THEN [info |-> newEmptyStakingInfo(blockNum), err |-> NoErr]
  ELSE IF fault = "noUseGini"
    THEN [info |-> newEmptyStakingInfo(blockNum), err |-> ErrGovernance]
  ELSE [info |-> [BlockNum              |-> blockNum,
                  CouncilNodeAddrs      |-> nodeAddrs,
                  CouncilStakingAddrs   |-> stakingAddrs,
                  CouncilRewardAddrs    |-> rewardAddrs,
                  KIRAddr               |-> KIRAddr,
                  PoCAddr               |-> PoCAddr,
                  UseGini               |-> UseGiniCoeffAt(blockNum),
                  Gini                  |-> DefaultGiniCoefficient,
                  CouncilStakingAmounts |-> getStakingAmounts(blockNum, stakingAddrs, 1)],
        err  |-> NoErr]

\* newStakingInfo: block, state, balances (divided by KLAY, clamped), the
\* UseGini flag, and Gini left at the sentinel.  info is meaningful when
\* err = NoErr (the code returns a nil pointer otherwise).
newStakingInfo(fault, blockNum, nodeAddrs, stakingAddrs, rewardAddrs, KIRAddr, PoCAddr) ==
  IF fault = "noBlock"
    THEN [info |-> newEmptyStakingInfo(blockNum), err |-> ErrBlockNotFound]
  ELSE IF fault = "noState"
    THEN [info |-> newEmptyStakingInfo(blockNum), err |-> ErrStateAt]
  ELSE LET stakingAmounts == getStakingAmounts(blockNum, stakingAddrs, 1)
       IN  IF fault = "noUseGini"
             THEN [info |-> newEmptyStakingInfo(blockNum), err |-> ErrGovernance]
             ELSE [info |-> [BlockNum              |-> blockNum,
                             CouncilNodeAddrs      |-> nodeAddrs,
                             CouncilStakingAddrs   |-> stakingAddrs,
                             CouncilRewardAddrs    |-> rewardAddrs,
                             KIRAddr               |-> KIRAddr,
                             PoCAddr               |-> PoCAddr,
                             UseGini               |-> UseGiniCoeffAt(blockNum),
                             Gini                  |-> DefaultGiniCoefficient,
                             CouncilStakingAmounts |-> stakingAmounts],
                   err  |-> NoErr]

\* addressBookConnector.getStakingInfoFromAddressBook: reads the registry
\* contract at the block and hands its lists to newStakingInfo
getStakingInfoFromAddressBook(fault, blockNum) ==
  newStakingInfo(fault, blockNum, AddressBookNodeAddrs, AddressBookStakingAddrs,
                 AddressBookRewardAddrs, AddressBookKIRAddr, AddressBookPoCAddr)

(***************************************************************************)
(* fillMissingGiniCoefficient: the in-place fix-up of a StakingInfo.       *)
(* Returns the object's new value, the error and the accesses made.        *)
(***************************************************************************)
\* a mutant of fillMissingGiniCoefficient: a Gini that is already set is
\* calculated again
fillMissingGiniCoefficientRecompute(fault, stakingInfo, number) ==
  IF ~stakingInfo.UseGini
    THEN [info |-> stakingInfo, err |-> NoErr, trace |-> <<>>]
  ELSE IF fault = "noMinStaking"
    THEN [info |-> stakingInfo, err |-> ErrGovernance, trace |-> <<"govMinStaking:err">>]
  ELSE [info  |-> [stakingInfo EXCEPT !.Gini =
                     CalcGiniCoefficientMinStake(GetConsolidatedStakingInfo(stakingInfo),
                                                 GetMinimumStakingAtNumber(number))],
        err   |-> NoErr,
        trace |-> <<"govMinStaking:ok", "calcGini">>]

\* a mutant of fillMissingGiniCoefficient: UseGini is not looked at
fillMissingGiniCoefficientIgnoreUseGini(fault, stakingInfo, number) ==
  IF GiniGE0(stakingInfo.Gini)
    THEN [info |-> stakingInfo, err |-> NoErr, trace |-> <<>>]
  ELSE IF fault = "noMinStaking"
    THEN [info |-> stakingInfo, err |-> ErrGovernance, trace |-> <<"govMinStaking:err">>]
  ELSE [info  |-> [stakingInfo EXCEPT !.Gini =
                     CalcGiniCoefficientMinStake(GetConsolidatedStakingInfo(stakingInfo),
                                                 GetMinimumStakingAtNumber(number))],
        err   |-> NoErr,
        trace |-> <<"govMinStaking:ok", "calcGini">>]

fillMissingGiniCoefficient(fault, stakingInfo, number) ==
  IF ~stakingInfo.UseGini
    THEN [info |-> stakingInfo, err |-> NoErr, trace |-> <<>>]
  ELSE IF GiniGE0(stakingInfo.Gini)
    THEN [info |-> stakingInfo, err |-> NoErr, trace |-> <<>>]
  ELSE IF fault = "noMinStaking"
    THEN [info |-> stakingInfo, err |-> ErrGovernance, trace |-> <<"govMinStaking:err">>]
  ELSE [info  |-> [stakingInfo EXCEPT !.Gini =
                     CalcGiniCoefficientMinStake(GetConsolidatedStakingInfo(stakingInfo),
                                                 GetMinimumStakingAtNumber(number))],
        err   |-> NoErr,
        trace |-> <<"govMinStaking:ok", "calcGini">>]

(***************************************************************************)
(* The staking info cache: cells in recency order, the least recently used *)
(* first; each cell holds the key and the pointer.                         *)
(***************************************************************************)
cacheIndex(cache, blockNum) == {i \in 1 .. Len(cache) : cache[i].key = blockNum}

cacheHas(cache, blockNum) == cacheIndex(cache, blockNum) # {}

cacheObj(cache, blockNum) ==
  IF cacheHas(cache, blockNum)
    THEN cache[CHOOSE i \in cacheIndex(cache, blockNum) : TRUE].obj
    ELSE 0

cacheRemove(cache, blockNum) == SelectSeq(cache, LAMBDA c : c.key # blockNum)

\* get: the pointer (0 on a miss); a hit makes the cell the most recent
cacheGet(cache, blockNum) ==
  IF cacheHas(cache, blockNum)
    THEN [obj   |-> cacheObj(cache, blockNum),
          cache |-> Append(cacheRemove(cache, blockNum),
                           [key |-> blockNum, obj |-> cacheObj(cache, blockNum)])]
    ELSE [obj |-> 0, cache |-> cache]

\* add: upsert; a full cache evicts the least recently used cell
cacheAdd(cache, blockNum, obj) ==
  LET cell == [key |-> blockNum, obj |-> obj]
  IN  IF cacheHas(cache, blockNum)
        THEN Append(cacheRemove(cache, blockNum), cell)
      ELSE IF Len(cache) < maxStakingCache
        THEN Append(cache, cell)
      ELSE Append(Tail(cache), cell)

(***************************************************************************)
(* The staking info DB: a keyed store of encoded snapshots.                *)
(***************************************************************************)
getStakingInfoFromDB(store, blockNum) ==
  IF blockNum \in DOMAIN store
    THEN [info |-> DecodeRLP(store[blockNum]), err |-> NoErr]
    ELSE [info |-> newEmptyStakingInfo(blockNum), err |-> ErrDBNotFound]

AddStakingInfoToDB(fault, store, stakingInfo) ==
  IF fault = "writeErr"
    THEN [store |-> store, err |-> ErrDBWrite]
    ELSE [store |-> [k \in DOMAIN store \cup {stakingInfo.BlockNum} |->
                       IF k = stakingInfo.BlockNum
                         THEN EncodeRLP(stakingInfo)
                         ELSE store[k]],
          err   |-> NoErr]

(***************************************************************************)
(* State                                                                   *)
(***************************************************************************)
VARIABLES
  stakingManager,          \* the package variable: NilManager or the instance's collaborators
  onceDone,                \* sync.Once: the function of once.Do has returned
  onceM,                   \* sync.Once: the caller holding its mutex, 0 when free
  constructed,             \* how many StakingManager objects were built
  migrationPrerequisites,  \* how many prerequisite functions were registered
  heap,                    \* the StakingInfo objects that are still referenced
  stakingInfoCache,        \* stakingManager.stakingInfoCache
  store,                   \* what stakingManager.stakingInfoDB holds
  chainHeadSub,            \* stakingManager.chainHeadSub: 0 (nil) or an index of subs
  subs,                    \* the subscriptions made so far: "live" or "closed"
  chainHeadChan,           \* stakingManager.chainHeadChan
  loops,                   \* the handleChainHeadEvent goroutines, one per subscription made
  selectSub,               \* per goroutine: the subscription whose Err() its select waits on
  received,                \* how many events the loops have taken from chainHeadChan
  pc, args, ret,           \* the concurrent callers of NewStakingManager
  readers,                 \* the concurrent callers of GetStakingInfoOnStakingBlock
  last,                    \* the call that returned last: result and accesses made
  nodes,                   \* kbnd: the pids of the running kbn processes
  pidfile,                 \* kbnd: the pid in /var/run/kbnd.pid, 0 when the file is absent
  daemonPc,                \* kbnd: where __auto_restart_daemon is, "dead" once killed
  daemonPidfile,           \* kbnd: /var/run/restart_daemon_kbnd.pid exists
  stopPc,                  \* kbnd: where the stop command is
  started                  \* kbnd: how many kbn processes were launched; the last one's pid

vars == <<stakingManager, onceDone, onceM, constructed, migrationPrerequisites, heap,
          stakingInfoCache, store, chainHeadSub, subs, chainHeadChan, loops, selectSub,
          received, pc, args, ret, readers, last, nodes, pidfile, daemonPc, daemonPidfile,
          stopPc, started>>

onceVars == <<onceDone, onceM, constructed, migrationPrerequisites>>
dataVars == <<heap, stakingInfoCache, store>>
subVars == <<chainHeadSub, subs, chainHeadChan, loops, selectSub, received>>
callerVars == <<pc, args, ret, readers>>
kbndVars == <<nodes, pidfile, daemonPc, daemonPidfile, stopPc, started>>

\* kbnd after "start" with AUTO_RESTART_NODE=1: start_auto_restart_daemon has
\* launched the daemon and written its pid file; no node was started yet
KbndStarted ==
  /\ nodes = {}
  /\ pidfile = 0
  /\ daemonPc = "poll"
  /\ daemonPidfile = TRUE
  /\ stopPc = "idle"
  /\ started = 0

\* &StakingManager{...}: the collaborators the instance is built from (its
\* cache, channel and subscription are the variables above)
newStakingManager(bc, gh, db) ==
  [addressBookConnector |-> <<bc, gh>>,
   stakingInfoDB        |-> db,
   governanceHelper     |-> gh,
   blockchain           |-> bc]

\* the nil *StakingManager
NilManager == newStakingManager("nil", "nil", "nil")

\* the parameters NewStakingManager is called with at node startup
Params == {[bc |-> "bc1", gh |-> "gh1", db |-> "db1"],
           [bc |-> "nil", gh |-> "gh1", db |-> "db1"],
           [bc |-> "bc1", gh |-> "nil", db |-> "db1"]}

\* the parameters of the concurrent callers: a second full set as well
CallerParams == Params \cup {[bc |-> "bc2", gh |-> "gh2", db |-> "db2"]}

NoParams == [bc |-> "nil", gh |-> "nil", db |-> "nil"]

Callers == 1 .. NumCallers

\* one more than the objects that can be referenced at once: the cells of the
\* cache, the last result, and the objects a call creates before it returns
ObjIds == 1 .. (maxStakingCache + 3)

Alloc(h) == CHOOSE id \in ObjIds \ DOMAIN h : \A j \in ObjIds \ DOMAIN h : id <= j

\* the objects a state still refers to: the cells of the cache and the result
\* the last caller holds; everything else is garbage
Live(cache, res) == {cache[i].obj : i \in 1 .. Len(cache)} \cup ({res} \ {0})

Collect(h, cache, res) == [id \in DOMAIN h \cap Live(cache, res) |-> h[id]]

\* the record of a call: the operation, its argument (a block number, or the
\* parameters of NewStakingManager), the pointer or manager it returned, its
\* error and the accesses it made
Call(op, arg, params, res, mgr, err, trace) ==
  [op |-> op, arg |-> arg, params |-> params, res |-> res, mgr |-> mgr, err |-> err,
   trace |-> trace]

NoCall == Call("none", 0, NoParams, 0, NilManager, NoErr, <<>>)

\* a caller of GetStakingInfoOnStakingBlock: where it is, the staking block
\* it asks for (-1 before its first call), the pointer it holds and the tier
\* that gave it
Reader(pcOf, key, obj, path) == [pc |-> pcOf, key |-> key, obj |-> obj, path |-> path]

IdleReader == Reader("idle", -1, 0, "none")

(***************************************************************************)
(* The resolution, as functions of the data state d = [heap, cache, store] *)
(* to the new data state, the result, the error and the accesses made.     *)
(***************************************************************************)
Data == [heap |-> heap, cache |-> stakingInfoCache, store |-> store]

Outcome(d, res, err, trace) ==
  [heap |-> d.heap, cache |-> d.cache, store |-> d.store,
   res |-> res, err |-> err, trace |-> trace]

\* a mutant of updateStakingInfo: the Gini is filled before the DB write
updateStakingInfoFillFirst(mgr, d, fault, blockNum) ==
  IF mgr = NilManager
    THEN Outcome(d, 0, ErrStakingManagerNotSet, <<>>)
    ELSE
      LET r == getStakingInfoFromAddressBook(fault, blockNum)
      IN  IF r.err # NoErr
            THEN Outcome(d, 0, r.err, <<"derive:err">>)
            ELSE
              LET id == Alloc(d.heap)
                  f  == fillMissingGiniCoefficient(fault, r.info, blockNum)
                  w  == AddStakingInfoToDB(fault, d.store, f.info)
              IN  IF w.err # NoErr
                    THEN Outcome([d EXCEPT !.heap = (id :> f.info) @@ d.heap],
                                 id, w.err, <<"derive:ok", "dbWrite:err">>)
                    ELSE Outcome([heap  |-> (id :> f.info) @@ d.heap,
                                  cache |-> cacheAdd(d.cache, f.info.BlockNum, id),
                                  store |-> w.store],
                                 id, NoErr,
                                 <<"derive:ok">> \o f.trace \o <<"dbWrite:ok", "cacheAdd">>)

\* a mutant of updateStakingInfo: the snapshot is not added to the cache
updateStakingInfoNoCache(mgr, d, fault, blockNum) ==
  IF mgr = NilManager
    THEN Outcome(d, 0, ErrStakingManagerNotSet, <<>>)
    ELSE
      LET r == getStakingInfoFromAddressBook(fault, blockNum)
      IN  IF r.err # NoErr
            THEN Outcome(d, 0, r.err, <<"derive:err">>)
            ELSE
              LET id == Alloc(d.heap)
                  w  == AddStakingInfoToDB(fault, d.store, r.info)
              IN  IF w.err # NoErr
                    THEN Outcome([d EXCEPT !.heap = (id :> r.info) @@ d.heap],
                                 id, w.err, <<"derive:ok", "dbWrite:err">>)
                    ELSE
                      LET f == fillMissingGiniCoefficient(fault, r.info, blockNum)
                      IN  Outcome([heap  |-> (id :> f.info) @@ d.heap,
                                   cache |-> d.cache,
                                   store |-> w.store],
                                  id, NoErr,
                                  <<"derive:ok", "dbWrite:ok">> \o f.trace)

\* a mutant of updateStakingInfo: a failed DB write yields no snapshot
updateStakingInfoNilOnWriteErr(mgr, d, fault, blockNum) ==
  IF mgr = NilManager
    THEN Outcome(d, 0, ErrStakingManagerNotSet, <<>>)
    ELSE
      LET r == getStakingInfoFromAddressBook(fault, blockNum)
      IN  IF r.err # NoErr
            THEN Outcome(d, 0, r.err, <<"derive:err">>)
            ELSE
              LET id == Alloc(d.heap)
                  w  == AddStakingInfoToDB(fault, d.store, r.info)
              IN  IF w.err # NoErr
                    THEN Outcome(d, 0, w.err, <<"derive:ok", "dbWrite:err">>)
                    ELSE
                      LET f == fillMissingGiniCoefficient(fault, r.info, blockNum)
                      IN  Outcome([heap  |-> (id :> f.info) @@ d.heap,
                                   cache |-> cacheAdd(d.cache, f.info.BlockNum, id),
                                   store |-> w.store],
                                  id, NoErr,
                                  <<"derive:ok", "dbWrite:ok">> \o f.trace \o <<"cacheAdd">>)

\* an update that adds the snapshot to the cache when the store write failed
updateStakingInfoCacheOnWriteErr(mgr, d, fault, blockNum) ==
  IF mgr = NilManager
    THEN Outcome(d, 0, ErrStakingManagerNotSet, <<>>)
    ELSE
      LET r == getStakingInfoFromAddressBook(fault, blockNum)
      IN  IF r.err # NoErr
            THEN Outcome(d, 0, r.err, <<"derive:err">>)
            ELSE
              LET id == Alloc(d.heap)
                  w  == AddStakingInfoToDB(fault, d.store, r.info)
                  f  == fillMissingGiniCoefficient(fault, r.info, blockNum)
              IN  Outcome([heap  |-> (id :> f.info) @@ d.heap,
                           cache |-> cacheAdd(d.cache, f.info.BlockNum, id),
                           store |-> w.store],
                          id, w.err,
                          <<"derive:ok", IF w.err = NoErr THEN "dbWrite:ok" ELSE "dbWrite:err">>
                            \o f.trace \o <<"cacheAdd">>)

updateStakingInfo(mgr, d, fault, blockNum) ==
  IF mgr = NilManager
    THEN Outcome(d, 0, ErrStakingManagerNotSet, <<>>)
    ELSE
      LET r == getStakingInfoFromAddressBook(fault, blockNum)
      IN  IF r.err # NoErr
            THEN Outcome(d, 0, r.err, <<"derive:err">>)
            ELSE
              \* Add to DB before setting Gini; DB will contain {Gini: -1}
              LET id == Alloc(d.heap)
                  w  == AddStakingInfoToDB(fault, d.store, r.info)
              IN  IF w.err # NoErr
                    THEN Outcome([d EXCEPT !.heap = (id :> r.info) @@ d.heap],
                                 id, w.err, <<"derive:ok", "dbWrite:err">>)
                    ELSE
                      \* Fill in Gini coeff, then add to cache
                      LET f == fillMissingGiniCoefficient(fault, r.info, blockNum)
                      IN  Outcome([heap  |-> (id :> f.info) @@ d.heap,
                                   cache |-> cacheAdd(d.cache, f.info.BlockNum, id),
                                   store |-> w.store],
                                  id, NoErr,
                                  <<"derive:ok", "dbWrite:ok">> \o f.trace \o <<"cacheAdd">>)

\* GetStakingInfoOnStakingBlock after its two early returns: cache, then
\* DB, then the address book
resolveStakingInfo(mgr, d, fault, stakingBlockNumber) ==
  LET g == cacheGet(d.cache, stakingBlockNumber)
  IN  IF g.obj # 0
        THEN \* cache hit: the fix-up modifies the cached object
          LET f == fillMissingGiniCoefficient(fault, d.heap[g.obj], stakingBlockNumber)
          IN  Outcome([heap  |-> [d.heap EXCEPT ![g.obj] = f.info],
                       cache |-> g.cache,
                       store |-> d.store],
                      g.obj, NoErr, <<"cacheGet:hit">> \o f.trace)
        ELSE
          LET s == getStakingInfoFromDB(d.store, stakingBlockNumber)
          IN  IF s.err = NoErr
                THEN \* DB hit: a new object, fixed up and added to the cache
                  LET id == Alloc(d.heap)
                      f  == fillMissingGiniCoefficient(fault, s.info, stakingBlockNumber)
                  IN  Outcome([heap  |-> (id :> f.info) @@ d.heap,
                               cache |-> cacheAdd(g.cache, f.info.BlockNum, id),
                               store |-> d.store],
                              id, NoErr,
                              <<"cacheGet:miss", "dbRead:hit">> \o f.trace \o <<"cacheAdd">>)
                ELSE \* read the contract: updateStakingInfo
                  LET u == updateStakingInfo(mgr, [d EXCEPT !.cache = g.cache],
                                             fault, stakingBlockNumber)
                  IN  [u EXCEPT !.err   = NoErr,
                                !.trace = <<"cacheGet:miss", "dbRead:miss">> \o @]

\* a mutant of GetStakingInfoOnStakingBlock: no shortcut for a block that is
\* not on the staking update interval
GetStakingInfoOnStakingBlockNoShortcut(mgr, d, fault, stakingBlockNumber) ==
  IF mgr = NilManager
    THEN Outcome(d, 0, NoErr, <<>>)
    ELSE resolveStakingInfo(mgr, d, fault, stakingBlockNumber)

\* a mutant of GetStakingInfoOnStakingBlock: the manager is not checked
GetStakingInfoOnStakingBlockNoNilCheck(mgr, d, fault, stakingBlockNumber) ==
  IF ~IsStakingUpdateInterval(stakingBlockNumber)
    THEN Outcome(d, 0, NoErr, <<>>)
    ELSE resolveStakingInfo(mgr, d, fault, stakingBlockNumber)

GetStakingInfoOnStakingBlock(mgr, d, fault, stakingBlockNumber) ==
  IF mgr = NilManager
    THEN \* logger.Error("unable to GetStakingInfo")
      Outcome(d, 0, NoErr, <<>>)
  ELSE IF ~IsStakingUpdateInterval(stakingBlockNumber)
    THEN \* shortcut if given block is not on staking update interval
      Outcome(d, 0, NoErr, <<>>)
  ELSE resolveStakingInfo(mgr, d, fault, stakingBlockNumber)

GetStakingInfo(mgr, d, fault, blockNum) ==
  GetStakingInfoOnStakingBlock(mgr, d, fault, CalcStakingBlockNumber(blockNum))

\* a mutant of CheckStakingInfoStored: the error of the update is dropped
CheckStakingInfoStoredNoErr(mgr, d, fault, blockNum) ==
  IF mgr = NilManager
    THEN Outcome(d, 0, ErrStakingManagerNotSet, <<>>)
    ELSE
      LET stakingBlockNumber == CalcStakingBlockNumber(blockNum)
          s == getStakingInfoFromDB(d.store, stakingBlockNumber)
      IN  IF s.err = NoErr
            THEN Outcome(d, 0, NoErr, <<"dbRead:hit">>)
            ELSE LET u == updateStakingInfo(mgr, d, fault, stakingBlockNumber)
                 IN  [u EXCEPT !.res = 0, !.err = NoErr, !.trace = <<"dbRead:miss">> \o @]

\* a check that returns nil on a store miss without the update
CheckStakingInfoStoredSkipUpdate(mgr, d, fault, blockNum) ==
  IF mgr = NilManager
    THEN Outcome(d, 0, ErrStakingManagerNotSet, <<>>)
    ELSE
      LET stakingBlockNumber == CalcStakingBlockNumber(blockNum)
          s == getStakingInfoFromDB(d.store, stakingBlockNumber)
      IN  IF s.err = NoErr
            THEN Outcome(d, 0, NoErr, <<"dbRead:hit">>)
            ELSE Outcome(d, 0, NoErr, <<"dbRead:miss">>)

CheckStakingInfoStored(mgr, d, fault, blockNum) ==
  IF mgr = NilManager
    THEN Outcome(d, 0, ErrStakingManagerNotSet, <<>>)
    ELSE
      LET stakingBlockNumber == CalcStakingBlockNumber(blockNum)
          s == getStakingInfoFromDB(d.store, stakingBlockNumber)
      IN  IF s.err = NoErr
            THEN \* skip checking if staking info is stored in DB
              Outcome(d, 0, NoErr, <<"dbRead:hit">>)
            ELSE \* update staking info in DB and cache from address book
              LET u == updateStakingInfo(mgr, d, fault, stakingBlockNumber)
              IN  [u EXCEPT !.res = 0, !.trace = <<"dbRead:miss">> \o @]

\* the function NewStakingManager registers with the chain
MigrationPrerequisite(mgr, d, fault1, fault2, blockNum) ==
  LET c1 == CheckStakingInfoStored(mgr, d, fault1, blockNum)
  IN  IF c1.err # NoErr
        THEN [c1 EXCEPT !.trace = @ \o <<"check:err">>]
        ELSE LET c2 == CheckStakingInfoStored(mgr, [heap |-> c1.heap, cache |-> c1.cache,
                                                    store |-> c1.store],
                                              fault2, blockNum + StakingUpdateInterval)
             IN  [c2 EXCEPT !.trace = c1.trace \o <<"check:ok">> \o @ \o
                                      <<IF c2.err = NoErr THEN "check:ok" ELSE "check:err">>]

(***************************************************************************)
(* Init: the process has started, nothing has been constructed.            *)
(***************************************************************************)
Init ==
  /\ stakingManager = NilManager
  /\ onceDone = FALSE
  /\ onceM = 0
  /\ constructed = 0
  /\ migrationPrerequisites = 0
  /\ heap = <<>>
  /\ stakingInfoCache = <<>>
  /\ store = <<>>
  /\ chainHeadSub = 0
  /\ subs = <<>>
  /\ chainHeadChan = <<>>
  /\ loops = <<>>
  /\ selectSub = <<>>
  /\ received = 0
  /\ pc = [c \in Callers |-> "idle"]
  /\ args = [c \in Callers |-> NoParams]
  /\ ret = [c \in Callers |-> NilManager]
  /\ readers = [c \in Callers |-> IdleReader]
  /\ last = NoCall
  /\ KbndStarted

(***************************************************************************)
(* The operations, each a whole call                                       *)
(***************************************************************************)
\* a resolution call returns: its effects on the data, and its record
Return(o, op, arg) ==
  /\ heap' = Collect(o.heap, o.cache, o.res)
  /\ stakingInfoCache' = o.cache
  /\ store' = o.store
  /\ last' = Call(op, arg, NoParams, o.res, NilManager, o.err, o.trace)

\* a mutant of NewStakingManager: the collaborators are not checked
CallNewStakingManagerNoNilCheck ==
  \E p \in Params :
    /\ IF ~onceDone
         THEN /\ stakingManager' = newStakingManager(p.bc, p.gh, p.db)
              /\ constructed' = constructed + 1
              /\ migrationPrerequisites' = migrationPrerequisites + 1
              /\ onceDone' = TRUE
         ELSE UNCHANGED <<stakingManager, constructed, migrationPrerequisites, onceDone>>
    /\ last' = Call("NewStakingManager", 0, p, 0, stakingManager', NoErr, <<>>)
    /\ heap' = Collect(heap, stakingInfoCache, 0)
    /\ UNCHANGED <<onceM, stakingInfoCache, store, subVars, callerVars, kbndVars>>

\* NewStakingManager(bc, gh, db) run without interleaving
CallNewStakingManager ==
  \E p \in Params :
    /\ IF p.bc # "nil" /\ p.gh # "nil"
         THEN \* once.Do
           IF ~onceDone
             THEN /\ stakingManager' = newStakingManager(p.bc, p.gh, p.db)
                  /\ constructed' = constructed + 1
                  /\ migrationPrerequisites' = migrationPrerequisites + 1
                  /\ onceDone' = TRUE
             ELSE UNCHANGED <<stakingManager, constructed, migrationPrerequisites, onceDone>>
         ELSE \* logger.Error("unable to set StakingManager")
           UNCHANGED <<stakingManager, constructed, migrationPrerequisites, onceDone>>
    /\ last' = Call("NewStakingManager", 0, p, 0, stakingManager', NoErr, <<>>)
    /\ heap' = Collect(heap, stakingInfoCache, 0)
    /\ UNCHANGED <<onceM, stakingInfoCache, store, subVars, callerVars, kbndVars>>

CallGetStakingInfo ==
  \E blockNum \in BlockNums, fault \in Faults :
    /\ Return(GetStakingInfo(stakingManager, Data, fault, blockNum),
              "GetStakingInfo", blockNum)
    /\ UNCHANGED <<stakingManager, onceVars, subVars, callerVars, kbndVars>>

CallGetStakingInfoOnStakingBlock ==
  \E stakingBlockNumber \in BlockNums, fault \in Faults :
    /\ Return(GetStakingInfoOnStakingBlock(stakingManager, Data, fault, stakingBlockNumber),
              "GetStakingInfoOnStakingBlock", stakingBlockNumber)
    /\ UNCHANGED <<stakingManager, onceVars, subVars, callerVars, kbndVars>>

CallCheckStakingInfoStored ==
  \E blockNum \in BlockNums, fault \in Faults :
    /\ Return(CheckStakingInfoStored(stakingManager, Data, fault, blockNum),
              "CheckStakingInfoStored", blockNum)
    /\ UNCHANGED <<stakingManager, onceVars, subVars, callerVars, kbndVars>>

\* the chain runs the registered prerequisite before a state trie migration
CallMigrationPrerequisite ==
  /\ migrationPrerequisites > 0
  /\ \E blockNum \in BlockNums, fault1 \in Faults :
       \* the second check meets a fault only if the first check let it run
       \E fault2 \in IF CheckStakingInfoStored(stakingManager, Data, fault1, blockNum).err
                         # NoErr
                       THEN {"none"} ELSE Faults :
         Return(MigrationPrerequisite(stakingManager, Data, fault1, fault2, blockNum),
                "MigrationPrerequisite", blockNum)
  /\ UNCHANGED <<stakingManager, onceVars, subVars, callerVars, kbndVars>>

\* event.Subscription.Unsubscribe: the subscription stops delivering and its
\* Err channel is closed; on a closed subscription it does nothing
Unsubscribe(s, sub) == [i \in 1 .. Len(s) |-> IF i = sub THEN "closed" ELSE s[i]]

\* a mutant of StakingManagerUnsubscribe: the most recent subscription that
\* still delivers is torn down, not the one chainHeadSub holds
StakingManagerUnsubscribeLastLive(mgr, sub, s) ==
  IF mgr = NilManager
    THEN s
  ELSE IF sub = 0
    THEN s
  ELSE LET live == {i \in 1 .. Len(s) : s[i] = "live"}
       IN  IF live = {}
             THEN s
             ELSE Unsubscribe(s, CHOOSE i \in live : \A j \in live : j <= i)

\* StakingManagerUnsubscribe, as a function of the subscriptions
StakingManagerUnsubscribe(mgr, sub, s) ==
  IF mgr = NilManager
    THEN s
  ELSE IF sub = 0
    THEN s
  ELSE Unsubscribe(s, sub)

\* a mutant of handleChainHeadEventStart: the test of chainHeadSub is inverted
handleChainHeadEventStartInverted(mgr, sub) ==
  IF mgr = NilManager
    THEN "return"
  ELSE IF sub # 0
    THEN "return"
  ELSE "loop"

\* the checks handleChainHeadEvent makes before it loops
handleChainHeadEventStart(mgr, sub) ==
  IF mgr = NilManager
    THEN "return"
  ELSE IF sub = 0
    THEN "return"
  ELSE "loop"

\* StakingManagerSubscribe: a new subscription on the manager's channel
\* replaces chainHeadSub, and a goroutine starts handleChainHeadEvent
CallStakingManagerSubscribe ==
  /\ IF stakingManager = NilManager
       THEN UNCHANGED subVars
       ELSE /\ Len(subs) < MaxSubscribe
            /\ subs' = Append(subs, "live")
            /\ chainHeadSub' = Len(subs) + 1
            \* go handleChainHeadEvent(): the goroutine loops or returns at once
            /\ loops' = Append(loops,
                 IF handleChainHeadEventStart(stakingManager, chainHeadSub') = "loop"
                   THEN "start" ELSE "exited")
            /\ selectSub' = Append(selectSub, 0)
            /\ UNCHANGED <<chainHeadChan, received>>
  /\ last' = Call("StakingManagerSubscribe", 0, NoParams, 0, NilManager, NoErr, <<>>)
  /\ heap' = Collect(heap, stakingInfoCache, 0)
  /\ UNCHANGED <<stakingManager, onceVars, stakingInfoCache, store, callerVars, kbndVars>>

CallStakingManagerUnsubscribe ==
  /\ subs' = StakingManagerUnsubscribe(stakingManager, chainHeadSub, subs)
  /\ UNCHANGED <<chainHeadSub, chainHeadChan, loops, selectSub, received>>
  /\ last' = Call("StakingManagerUnsubscribe", 0, NoParams, 0, NilManager, NoErr, <<>>)
  /\ heap' = Collect(heap, stakingInfoCache, 0)
  /\ UNCHANGED <<stakingManager, onceVars, stakingInfoCache, store, callerVars, kbndVars>>

\* The resolution of staking information.  The prefetch of the chain-head loop
\* is a GetStakingInfo call, so the data states it reaches are reached here too.
Next ==
  \/ CallNewStakingManager
  \/ CallGetStakingInfo
  \/ CallGetStakingInfoOnStakingBlock
  \/ CallCheckStakingInfoStored
  \/ CallMigrationPrerequisite

Spec == Init /\ [][Next]_vars

\* The exported calls of the package, the subscription calls among them
NextCalls ==
  \/ CallNewStakingManager
  \/ CallGetStakingInfo
  \/ CallGetStakingInfoOnStakingBlock
  \/ CallCheckStakingInfoStored
  \/ CallStakingManagerSubscribe
  \/ CallStakingManagerUnsubscribe

SpecCalls == Init /\ [][NextCalls]_vars

(***************************************************************************)
(* NewStakingManager under concurrent callers, one step per statement.     *)
(* once.Do(f) is sync.Once: a caller that finds done unset takes the       *)
(* mutex, looks at done again, runs f and sets done before it unlocks.     *)
(***************************************************************************)
resolveVars == <<heap, stakingInfoCache, store, subVars, readers, last, kbndVars>>

\* the call: NewStakingManager(bc, gh, db)
NSMCall(c) ==
  /\ pc[c] = "idle"
  /\ \E p \in CallerParams : args' = [args EXCEPT ![c] = p]
  /\ pc' = [pc EXCEPT ![c] = "check"]
  /\ UNCHANGED <<stakingManager, onceVars, ret, resolveVars>>

\* if bc != nil && gh != nil { once.Do(...) } else { logger.Error(...) }
NSMCheck(c) ==
  /\ pc[c] = "check"
  /\ pc' = [pc EXCEPT ![c] = IF args[c].bc # "nil" /\ args[c].gh # "nil"
                               THEN "once" ELSE "return"]
  /\ UNCHANGED <<stakingManager, onceVars, args, ret, resolveVars>>

\* once.Do, fast path: done is already set
NSMOnce(c) ==
  /\ pc[c] = "once"
  /\ pc' = [pc EXCEPT ![c] = IF onceDone THEN "return" ELSE "lock"]
  /\ UNCHANGED <<stakingManager, onceVars, args, ret, resolveVars>>

\* a mutant of NSMLock: done is not looked at again under the mutex
NSMLockNoRecheck(c) ==
  /\ pc[c] = "lock"
  /\ onceM = 0
  /\ onceM' = c
  /\ pc' = [pc EXCEPT ![c] = "construct"]
  /\ UNCHANGED <<stakingManager, onceDone, constructed, migrationPrerequisites,
                 args, ret, resolveVars>>

\* once.Do, slow path: take the mutex and look at done again
NSMLock(c) ==
  /\ pc[c] = "lock"
  /\ onceM = 0
  /\ IF onceDone
       THEN /\ UNCHANGED onceM
            /\ pc' = [pc EXCEPT ![c] = "return"]
       ELSE /\ onceM' = c
            /\ pc' = [pc EXCEPT ![c] = "construct"]
  /\ UNCHANGED <<stakingManager, onceDone, constructed, migrationPrerequisites,
                 args, ret, resolveVars>>

\* stakingManager = &StakingManager{...}
NSMConstruct(c) ==
  /\ pc[c] = "construct"
  /\ stakingManager' = newStakingManager(args[c].bc, args[c].gh, args[c].db)
  /\ constructed' = constructed + 1
  /\ pc' = [pc EXCEPT ![c] = "register"]
  /\ UNCHANGED <<onceDone, onceM, migrationPrerequisites, args, ret, resolveVars>>

\* blockchain.RegisterMigrationPrerequisites(...); f returns, done is set and
\* the mutex is released
NSMRegister(c) ==
  /\ pc[c] = "register"
  /\ migrationPrerequisites' = migrationPrerequisites + 1
  /\ onceDone' = TRUE
  /\ onceM' = 0
  /\ pc' = [pc EXCEPT ![c] = "return"]
  /\ UNCHANGED <<stakingManager, constructed, args, ret, resolveVars>>

\* return stakingManager
NSMReturn(c) ==
  /\ pc[c] = "return"
  /\ ret' = [ret EXCEPT ![c] = stakingManager]
  /\ pc' = [pc EXCEPT ![c] = "idle"]
  /\ UNCHANGED <<stakingManager, onceVars, args, resolveVars>>

NextOnce ==
  \E c \in Callers :
    \/ NSMCall(c)
    \/ NSMCheck(c)
    \/ NSMOnce(c)
    \/ NSMLock(c)
    \/ NSMConstruct(c)
    \/ NSMRegister(c)
    \/ NSMReturn(c)

SpecOnce == Init /\ [][NextOnce]_vars

(***************************************************************************)
(* GetStakingInfoOnStakingBlock under concurrent callers, one step per     *)
(* access to the shared state.  The cache and the DB serialise their own   *)
(* operations; nothing serialises the accesses to a cached StakingInfo.    *)
(* The callers ask for the same staking block and the collaborators        *)
(* answer.                                                                 *)
(***************************************************************************)
StakingBlockNums == {n \in BlockNums : IsStakingUpdateInterval(n)}

\* the objects the cache or a caller refers to
LiveOf(cache, rd) == Live(cache, 0) \cup ({rd[c].obj : c \in Callers} \ {0})

CollectOf(h, cache, rd) == [id \in DOMAIN h \cap LiveOf(cache, rd) |-> h[id]]

raceFrame == <<stakingManager, onceVars, subVars, pc, args, ret, last, kbndVars>>

\* the call, its nil check and its shortcut
RdCall(c) ==
  /\ readers[c].pc = "idle"
  /\ \E k \in StakingBlockNums :
       /\ \A c2 \in Callers : readers[c2].key \in {-1, k}
       /\ readers' = [readers EXCEPT ![c] =
            IF stakingManager = NilManager
              THEN Reader("idle", k, 0, "none")
            ELSE IF ~IsStakingUpdateInterval(k)
              THEN Reader("idle", k, 0, "none")
            ELSE Reader("cacheGet", k, 0, "none")]
  /\ heap' = CollectOf(heap, stakingInfoCache, readers')
  /\ UNCHANGED <<stakingInfoCache, store, raceFrame>>

\* stakingManager.stakingInfoCache.get(stakingBlockNumber)
RdCacheGet(c) ==
  /\ readers[c].pc = "cacheGet"
  /\ LET g == cacheGet(stakingInfoCache, readers[c].key)
     IN  /\ stakingInfoCache' = g.cache
         /\ readers' = [readers EXCEPT ![c] =
              IF g.obj # 0
                THEN Reader("fillCheck", @.key, g.obj, "cache")
                ELSE Reader("dbRead", @.key, 0, "none")]
  /\ UNCHANGED <<heap, store, raceFrame>>

\* getStakingInfoFromDB(stakingBlockNumber)
RdDBRead(c) ==
  /\ readers[c].pc = "dbRead"
  /\ LET s == getStakingInfoFromDB(store, readers[c].key)
     IN  IF s.err = NoErr
           THEN /\ heap' = (Alloc(heap) :> s.info) @@ heap
                /\ readers' = [readers EXCEPT ![c] =
                     Reader("fillCheck", @.key, Alloc(heap), "db")]
           ELSE /\ readers' = [readers EXCEPT ![c] = Reader("derive", @.key, 0, "none")]
                /\ UNCHANGED heap
  /\ UNCHANGED <<stakingInfoCache, store, raceFrame>>

\* updateStakingInfo: getStakingInfoFromAddressBook(blockNum)
RdDerive(c) ==
  /\ readers[c].pc = "derive"
  /\ LET r == getStakingInfoFromAddressBook("none", readers[c].key)
     IN  /\ heap' = (Alloc(heap) :> r.info) @@ heap
         /\ readers' = [readers EXCEPT ![c] = Reader("dbWrite", @.key, Alloc(heap), "update")]
  /\ UNCHANGED <<stakingInfoCache, store, raceFrame>>

\* updateStakingInfo: AddStakingInfoToDB(stakingInfo)
RdDBWrite(c) ==
  /\ readers[c].pc = "dbWrite"
  /\ store' = AddStakingInfoToDB("none", store, heap[readers[c].obj]).store
  /\ readers' = [readers EXCEPT ![c].pc = "fillCheck"]
  /\ UNCHANGED <<heap, stakingInfoCache, raceFrame>>

\* a mutant of RdFillCheck: a snapshot read from the DB is not fixed up
RdFillCheckSkipDB(c) ==
  /\ readers[c].pc = "fillCheck"
  /\ LET stakingInfo == heap[readers[c].obj]
     IN  readers' = [readers EXCEPT ![c].pc =
           IF readers[c].path = "db" \/ ~stakingInfo.UseGini \/ GiniGE0(stakingInfo.Gini)
             THEN "filled" ELSE "fillWrite"]
  /\ UNCHANGED <<heap, stakingInfoCache, store, raceFrame>>

\* fillMissingGiniCoefficient: the reads of UseGini and of Gini
RdFillCheck(c) ==
  /\ readers[c].pc = "fillCheck"
  /\ LET stakingInfo == heap[readers[c].obj]
     IN  readers' = [readers EXCEPT ![c].pc =
           IF ~stakingInfo.UseGini \/ GiniGE0(stakingInfo.Gini)
             THEN "filled" ELSE "fillWrite"]
  /\ UNCHANGED <<heap, stakingInfoCache, store, raceFrame>>

\* fillMissingGiniCoefficient: the minimum staking, the calculation and the
\* write of stakingInfo.Gini
RdFillWrite(c) ==
  /\ readers[c].pc = "fillWrite"
  /\ LET stakingInfo == heap[readers[c].obj]
     IN  heap' = [heap EXCEPT ![readers[c].obj].Gini =
           CalcGiniCoefficientMinStake(GetConsolidatedStakingInfo(stakingInfo),
                                       GetMinimumStakingAtNumber(readers[c].key))]
  /\ readers' = [readers EXCEPT ![c].pc = "filled"]
  /\ UNCHANGED <<stakingInfoCache, store, raceFrame>>

\* stakingInfoCache.add(stakingInfo) unless the cache gave the snapshot, and
\* the return of the pointer
RdFinish(c) ==
  /\ readers[c].pc = "filled"
  /\ stakingInfoCache' =
       IF readers[c].path = "cache"
         THEN stakingInfoCache
         ELSE cacheAdd(stakingInfoCache, heap[readers[c].obj].BlockNum, readers[c].obj)
  /\ readers' = [readers EXCEPT ![c].pc = "idle"]
  /\ heap' = CollectOf(heap, stakingInfoCache', readers')
  /\ UNCHANGED <<store, raceFrame>>

\* NewStakingManager while no caller of the resolution is under way
RaceNewStakingManager ==
  /\ CallNewStakingManager
  /\ \A c \in Callers : readers[c].pc = "idle" /\ readers[c].obj = 0

NextRace ==
  \/ RaceNewStakingManager
  \/ \E c \in Callers :
       \/ RdCall(c)
       \/ RdCacheGet(c)
       \/ RdDBRead(c)
       \/ RdDerive(c)
       \/ RdDBWrite(c)
       \/ RdFillCheck(c)
       \/ RdFillWrite(c)
       \/ RdFinish(c)

SpecRace == Init /\ [][NextRace]_vars

(***************************************************************************)
(* The chain-head loop.  Every StakingManagerSubscribe starts a goroutine  *)
(* that runs handleChainHeadEvent; all of them receive from the one        *)
(* chainHeadChan.  A select evaluates its channel operands when it is      *)
(* entered: a goroutine reads stakingManager.chainHeadSub at the top of    *)
(* every round of its for loop and waits on the Err() of what it read.     *)
(***************************************************************************)
\* governanceHelper.ProposerPolicy(): params.WeightedRandom or another policy
Policies == {"WeightedRandom", "RoundRobin"}

loopFrame == <<stakingManager, onceVars, callerVars, kbndVars>>

\* the chain's feed sends a chain head event to the channel of a
\* subscription that still delivers
ChainHeadEvent ==
  /\ \E i \in 1 .. Len(subs) : subs[i] = "live"
  /\ received + Len(chainHeadChan) < MaxEvents
  /\ Len(chainHeadChan) < chainHeadChanSize
  /\ \E n \in BlockNums : chainHeadChan' = Append(chainHeadChan, n)
  /\ UNCHANGED <<chainHeadSub, subs, loops, selectSub, received, dataVars, last, loopFrame>>

\* for { select {: the goroutine enters the select, which evaluates
\* stakingManager.chainHeadChan and stakingManager.chainHeadSub.Err()
LoopSelect(i) ==
  /\ i \in 1 .. Len(loops)
  /\ loops[i] = "start"
  /\ loops' = [loops EXCEPT ![i] = "select"]
  /\ selectSub' = [selectSub EXCEPT ![i] = chainHeadSub]
  /\ UNCHANGED <<chainHeadSub, subs, chainHeadChan, received, dataVars, last, loopFrame>>

\* a mutant of LoopReceive: the loop ends when the staking info is nil
LoopReceiveStopOnNil(i) ==
  /\ i \in 1 .. Len(loops)
  /\ loops[i] = "select"
  /\ chainHeadChan # <<>>
  /\ \E policy \in Policies, fault \in Faults :
       LET ev == Head(chainHeadChan)
           o  == IF policy = "WeightedRandom"
                   THEN GetStakingInfo(stakingManager, Data, fault,
                                       ev + StakingUpdateInterval)
                   ELSE Outcome(Data, 0, NoErr, <<>>)
       IN  /\ policy # "WeightedRandom" => fault = "none"
           /\ Return([o EXCEPT !.trace =
                        IF policy = "WeightedRandom"
                          THEN <<"policy:WeightedRandom", "GetStakingInfo">> \o @
                          ELSE <<"policy:other">>],
                     "handleChainHeadEvent", ev)
           /\ loops' = IF policy = "WeightedRandom" /\ o.res = 0
                         THEN [loops EXCEPT ![i] = "defer"]
                         ELSE [loops EXCEPT ![i] = "start"]
  /\ chainHeadChan' = Tail(chainHeadChan)
  /\ received' = received + 1
  /\ UNCHANGED <<chainHeadSub, subs, selectSub, loopFrame>>

\* a mutant of LoopReceive: the staking info of the event's own block is
\* fetched
LoopReceiveThisBlock(i) ==
  /\ i \in 1 .. Len(loops)
  /\ loops[i] = "select"
  /\ chainHeadChan # <<>>
  /\ \E policy \in Policies, fault \in Faults :
       LET ev == Head(chainHeadChan)
           o  == IF policy = "WeightedRandom"
                   THEN GetStakingInfo(stakingManager, Data, fault, ev)
                   ELSE Outcome(Data, 0, NoErr, <<>>)
       IN  /\ policy # "WeightedRandom" => fault = "none"
           /\ Return([o EXCEPT !.trace =
                        IF policy = "WeightedRandom"
                          THEN <<"policy:WeightedRandom", "GetStakingInfo">> \o @
                          ELSE <<"policy:other">>],
                     "handleChainHeadEvent", ev)
  /\ chainHeadChan' = Tail(chainHeadChan)
  /\ received' = received + 1
  \* the end of the case: back to the top of the for loop
  /\ loops' = [loops EXCEPT ![i] = "start"]
  /\ UNCHANGED <<chainHeadSub, subs, selectSub, loopFrame>>

\* case ev := <-stakingManager.chainHeadChan: under the WeightedRandom policy
\* GetStakingInfo(ev.Block.NumberU64() + params.StakingUpdateInterval()); a
\* nil result is logged; the loop goes on
LoopReceive(i) ==
  /\ i \in 1 .. Len(loops)
  /\ loops[i] = "select"
  /\ chainHeadChan # <<>>
  /\ \E policy \in Policies, fault \in Faults :
       LET ev == Head(chainHeadChan)
           o  == IF policy = "WeightedRandom"
                   THEN GetStakingInfo(stakingManager, Data, fault,
                                       ev + StakingUpdateInterval)
                   ELSE Outcome(Data, 0, NoErr, <<>>)
       IN  /\ policy # "WeightedRandom" => fault = "none"
           /\ Return([o EXCEPT !.trace =
                        IF policy = "WeightedRandom"
                          THEN <<"policy:WeightedRandom", "GetStakingInfo">> \o @
                          ELSE <<"policy:other">>],
                     "handleChainHeadEvent", ev)
  /\ chainHeadChan' = Tail(chainHeadChan)
  /\ received' = received + 1
  \* the end of the case: back to the top of the for loop
  /\ loops' = [loops EXCEPT ![i] = "start"]
  /\ UNCHANGED <<chainHeadSub, subs, selectSub, loopFrame>>

\* case <-stakingManager.chainHeadSub.Err(): return.  The Err channel of the
\* subscription the select read is ready once that subscription is closed.
LoopExit(i) ==
  /\ i \in 1 .. Len(loops)
  /\ loops[i] = "select"
  /\ selectSub[i] # 0
  /\ subs[selectSub[i]] = "closed"
  /\ loops' = [loops EXCEPT ![i] = "defer"]
  /\ UNCHANGED <<chainHeadSub, subs, chainHeadChan, selectSub, received, dataVars, last,
                 loopFrame>>

\* defer StakingManagerUnsubscribe(), run as the goroutine returns
LoopDefer(i) ==
  /\ i \in 1 .. Len(loops)
  /\ loops[i] = "defer"
  /\ subs' = StakingManagerUnsubscribe(stakingManager, chainHeadSub, subs)
  /\ loops' = [loops EXCEPT ![i] = "exited"]
  /\ UNCHANGED <<chainHeadSub, chainHeadChan, selectSub, received, dataVars, last, loopFrame>>

NextLoop ==
  \/ CallNewStakingManager
  \/ CallStakingManagerSubscribe
  \/ CallStakingManagerUnsubscribe
  \/ ChainHeadEvent
  \/ \E i \in 1 .. MaxSubscribe :
       \/ LoopSelect(i)
       \/ LoopReceive(i)
       \/ LoopExit(i)
       \/ LoopDefer(i)

SpecLoop == Init /\ [][NextLoop]_vars

\* the receive case of loop i is ready: this is ENABLED <<LoopReceive(i)>>_vars,
\* since a policy and a fault always exist and the step changes received
LoopReceiveReady(i) ==
  /\ i \in 1 .. Len(loops)
  /\ loops[i] = "select"
  /\ chainHeadChan # <<>>

\* weak fairness of LoopReceive(i), written out with LoopReceiveReady(i) in
\* the place of ENABLED <<LoopReceive(i)>>_vars
LoopReceiveFair(i) ==
  \/ []<>(~LoopReceiveReady(i))
  \/ []<><<LoopReceive(i)>>_vars

\* The goroutines are scheduled, and a select with several ready cases
\* picks one of them at random: a case that stays ready is taken.
SpecLoopFair ==
  /\ Init
  /\ [][NextLoop]_vars
  /\ \A i \in 1 .. MaxSubscribe :
       /\ WF_vars(LoopSelect(i))
       /\ LoopReceiveFair(i)
       /\ WF_vars(LoopExit(i))
       /\ WF_vars(LoopDefer(i))

(***************************************************************************)
(* The methods of a StakingInfo, called on a snapshot that is given.  The  *)
(* snapshot is the object 1 of the heap; it is well formed: its four       *)
(* council lists have one length.                                          *)
(***************************************************************************)
\* the staking amounts of the given snapshots
StakeValues == {0, 3, 5}

\* one registration of a council: node address, reward address and amount;
\* the staking address follows from the position.  N1 and N2 share R1, and
\* N2 is also registered under R3.
CouncilRecords ==
  {r \in [node : {"N1", "N2"}, reward : {"R1", "R3"}, amount : StakeValues] :
     r.node = "N1" => r.reward = "R1"}

\* the councils of up to n registrations
RECURSIVE Councils(_)
Councils(n) ==
  IF n = 0
    THEN {<<>>}
    ELSE LET shorter == Councils(n - 1)
         IN  shorter \cup {Append(c, r) : c \in {x \in shorter : Len(x) = n - 1},
                                            r \in CouncilRecords}

\* the Gini values of the given snapshots: the sentinel, zero, a value, NaN
GiniValues == {DefaultGiniCoefficient, 0, 17, NaN}

StakingInfoOf(c, blockNum, useGini, gini) ==
  [BlockNum              |-> blockNum,
   CouncilNodeAddrs      |-> [i \in 1 .. Len(c) |-> c[i].node],
   CouncilStakingAddrs   |-> [i \in 1 .. Len(c) |-> "S" \o ToString(i)],
   CouncilRewardAddrs    |-> [i \in 1 .. Len(c) |-> c[i].reward],
   KIRAddr               |-> AddressBookKIRAddr,
   PoCAddr               |-> AddressBookPoCAddr,
   UseGini               |-> useGini,
   Gini                  |-> gini,
   CouncilStakingAmounts |-> [i \in 1 .. Len(c) |-> c[i].amount]]

\* the given snapshots: every council with the fields of a fresh snapshot,
\* and every value of the other fields with the short councils
StakingInfos ==
  {StakingInfoOf(c, 0, TRUE, DefaultGiniCoefficient) : c \in Councils(MaxCouncil)}
    \cup {StakingInfoOf(c, b, u, g) : c \in Councils(1), b \in {0, MaxBlockNum},
                                      u \in BOOLEAN, g \in GiniValues}

\* the record of a method call on the snapshot: receiver (res), argument,
\* error and what it returned
InfoCall(op, arg, err, out) ==
  [op |-> op, arg |-> arg, params |-> NoParams, res |-> 1, mgr |-> NilManager,
   err |-> err, trace |-> <<>>, out |-> out]

InitInfo ==
  /\ stakingManager = NilManager
  /\ onceDone = FALSE
  /\ onceM = 0
  /\ constructed = 0
  /\ migrationPrerequisites = 0
  /\ \E s \in StakingInfos : heap = (1 :> s)
  /\ stakingInfoCache = <<>>
  /\ store = <<>>
  /\ chainHeadSub = 0
  /\ subs = <<>>
  /\ chainHeadChan = <<>>
  /\ loops = <<>>
  /\ selectSub = <<>>
  /\ received = 0
  /\ pc = [c \in Callers |-> "idle"]
  /\ args = [c \in Callers |-> NoParams]
  /\ ret = [c \in Callers |-> NilManager]
  /\ readers = [c \in Callers |-> IdleReader]
  /\ last = NoCall
  /\ KbndStarted

infoFrame == <<stakingManager, onceVars, stakingInfoCache, store, subVars, callerVars, kbndVars>>

\* rlp.EncodeToBytes(s), then rlp.DecodeBytes into a new StakingInfo
CallEncodeDecodeRLP ==
  /\ last' = InfoCall("EncodeRLP/DecodeRLP", EncodeRLP(heap[1]), NoErr,
                      DecodeRLP(EncodeRLP(heap[1])))
  /\ UNCHANGED <<heap, infoFrame>>

\* the loop of GetIndexByNodeAddress from position i (1-based); the index
\* returned is the one of the code, 0-based
RECURSIVE indexFrom(_, _, _)
indexFrom(s, nodeAddress, i) ==
  IF i > Len(s.CouncilNodeAddrs)
    THEN [index |-> AddrNotFoundInCouncilNodes, err |-> ErrAddrNotInStakingInfo]
    ELSE IF s.CouncilNodeAddrs[i] = nodeAddress
           THEN [index |-> i - 1, err |-> NoErr]
           ELSE indexFrom(s, nodeAddress, i + 1)

\* a mutant of GetIndexByNodeAddress: the last matching index is returned
GetIndexByNodeAddressLast(s, nodeAddress) ==
  LET hits == {i \in 1 .. Len(s.CouncilNodeAddrs) : s.CouncilNodeAddrs[i] = nodeAddress}
  IN  IF hits = {}
        THEN [index |-> AddrNotFoundInCouncilNodes, err |-> ErrAddrNotInStakingInfo]
        ELSE [index |-> (CHOOSE i \in hits : \A j \in hits : j <= i) - 1, err |-> NoErr]

GetIndexByNodeAddress(s, nodeAddress) == indexFrom(s, nodeAddress, 1)

GetStakingAmountByNodeId(s, nodeAddress) ==
  LET r == GetIndexByNodeAddress(s, nodeAddress)
  IN  IF r.err # NoErr
        THEN [amount |-> 0, err |-> r.err]
        ELSE [amount |-> s.CouncilStakingAmounts[r.index + 1], err |-> NoErr]

\* the addresses that are looked up: two that councils hold, one that none holds
NodeAddresses == {"N1", "N2", "N9"}

CallGetIndexByNodeAddress ==
  /\ \E nodeAddress \in NodeAddresses :
       LET r == GetIndexByNodeAddress(heap[1], nodeAddress)
       IN  last' = InfoCall("GetIndexByNodeAddress", nodeAddress, r.err, r.index)
  /\ UNCHANGED <<heap, infoFrame>>

CallGetStakingAmountByNodeId ==
  /\ \E nodeAddress \in NodeAddresses :
       LET r == GetStakingAmountByNodeId(heap[1], nodeAddress)
       IN  last' = InfoCall("GetStakingAmountByNodeId", nodeAddress, r.err, r.amount)
  /\ UNCHANGED <<heap, infoFrame>>

CallGetConsolidatedStakingInfo ==
  /\ last' = InfoCall("GetConsolidatedStakingInfo", 0, NoErr,
                      GetConsolidatedStakingInfo(heap[1]))
  /\ UNCHANGED <<heap, infoFrame>>

\* the floors that are asked for: none, one that two registrations of one
\* reward address meet only together, one that no node meets
MinStakes == {0, 6, 5 * MaxCouncil + 1}

CallCalcGiniCoefficientMinStake ==
  /\ \E minStake \in MinStakes :
       last' = InfoCall("CalcGiniCoefficientMinStake", minStake, NoErr,
                        CalcGiniCoefficientMinStake(GetConsolidatedStakingInfo(heap[1]),
                                                    minStake))
  /\ UNCHANGED <<heap, infoFrame>>

\* CalcGiniCoefficient(stakingAmount) on a slice of the caller, here the
\* amounts of the snapshot as float64: the result, and the slice as the
\* call leaves it (sort.Sort sorts the caller's slice in place)
CalcGiniCoefficientInPlace(stakingAmount) ==
  [result        |-> CalcGiniCoefficient(stakingAmount),
   stakingAmount |-> sortAscending(stakingAmount, <<>>)]

CallCalcGiniCoefficient ==
  /\ LET stakingAmount == heap[1].CouncilStakingAmounts
     IN  last' = InfoCall("CalcGiniCoefficient", stakingAmount, NoErr,
                          CalcGiniCoefficientInPlace(stakingAmount))
  /\ UNCHANGED <<heap, infoFrame>>

\* newStakingInfo with the address lists of the given snapshot
CallNewStakingInfo ==
  /\ \E blockNum \in StakingBlockNums, fault \in DeriveFaults \cup {"none"} :
       LET s == heap[1]
           r == newStakingInfo(fault, blockNum, s.CouncilNodeAddrs, s.CouncilStakingAddrs,
                               s.CouncilRewardAddrs, s.KIRAddr, s.PoCAddr)
       IN  last' = InfoCall("newStakingInfo", blockNum, r.err, r.info)
  /\ UNCHANGED <<heap, infoFrame>>

NextInfo ==
  \/ CallEncodeDecodeRLP
  \/ CallGetIndexByNodeAddress
  \/ CallGetStakingAmountByNodeId
  \/ CallGetConsolidatedStakingInfo
  \/ CallCalcGiniCoefficientMinStake
  \/ CallCalcGiniCoefficient
  \/ CallNewStakingInfo

SpecInfo == InitInfo /\ [][NextInfo]_vars

(***************************************************************************)
(* UnlockAccount (the account commands of the node).  The keystore and the *)
(* console are collaborators: what ks.Unlock and the prompt return is      *)
(* given.  log.Fatalf ends the process with its message.                   *)
(***************************************************************************)
\* for trials := 0; trials < 3; trials++
MaxTrials == 3

\* the most key files an ambiguous address has
MaxMatches == 2

ErrDecrypt == "could not decrypt key with given passphrase"
AmbiguousAddrError == "multiple keys match address"
ErrNoMatch == "no key for given address or file"

\* what ks.Unlock(account, password) returns
UnlockResults == {NoErr, ErrDecrypt, AmbiguousAddrError, ErrNoMatch}

\* no log.Fatalf was called
NoFatal == ""

\* accounts.Account{}
NoAccount == [Address |-> "", URL |-> ""]

\* the end of UnlockAccount: what it returns, or the message it dies with
UnlockOutcome(account, password, fatal, trace) ==
  [account |-> account, password |-> password, fatal |-> fatal, trace |-> trace]

\* getPassPhrase(prompt, false, i, passwords); typed is what PromptPassword
\* returns, "err" for its error
getPassPhrase(typed, i, passwords) ==
  IF Len(passwords) > 0
    THEN IF i < Len(passwords)
           THEN [password |-> passwords[i + 1], fatal |-> NoFatal]
           ELSE [password |-> passwords[Len(passwords)], fatal |-> NoFatal]
    ELSE IF typed = "err"
           THEN [password |-> "", fatal |-> "Failed to read passphrase"]
           ELSE [password |-> typed, fatal |-> NoFatal]

\* ambiguousAddrRecovery: the first of err.Matches that auth unlocks;
\* matches holds what ks.Unlock(a, auth) returns for each
ambiguousAddrRecovery(matches, address, auth, trace) ==
  LET tried(n) == [j \in 1 .. n |-> "recover:" \o matches[j]]
      ok == {j \in 1 .. Len(matches) : matches[j] = NoErr}
  IN  IF ok = {}
        THEN UnlockOutcome(NoAccount, "", "None of the listed files could be unlocked.",
                           trace \o tried(Len(matches)))
        ELSE LET m == CHOOSE j \in ok : \A k \in ok : j <= k
             IN  UnlockOutcome([Address |-> address, URL |-> "match" \o ToString(m)],
                               auth, NoFatal, trace \o tried(m))

\* a loop that prompts again after every error
RECURSIVE unlockTrialsAnyErr(_, _, _, _, _, _)
unlockTrialsAnyErr(trials, ks, address, i, passwords, trace) ==
  IF trials >= MaxTrials
    THEN UnlockOutcome(NoAccount, "", "Failed to unlock account", trace)
    ELSE
      LET p == getPassPhrase(ks.typed[trials + 1], i, passwords)
          err == ks.unlock[trials + 1]
          t == trace \o <<"Unlock:" \o err>>
      IN  IF p.fatal # NoFatal
            THEN UnlockOutcome(NoAccount, "", p.fatal, trace)
          ELSE IF err = NoErr
            THEN UnlockOutcome([Address |-> address, URL |-> "keyfile"], p.password,
                               NoFatal, t)
          ELSE IF err = AmbiguousAddrError
            THEN ambiguousAddrRecovery(ks.matches, address, p.password, t)
          ELSE unlockTrialsAnyErr(trials + 1, ks, address, i, passwords, t)

\* the loop of UnlockAccount from trial number trials on
RECURSIVE unlockTrials(_, _, _, _, _, _)
unlockTrials(trials, ks, address, i, passwords, trace) ==
  IF trials >= MaxTrials
    THEN \* All trials expended to unlock account, bail out
      UnlockOutcome(NoAccount, "", "Failed to unlock account", trace)
    ELSE
      LET p == getPassPhrase(ks.typed[trials + 1], i, passwords)
          err == ks.unlock[trials + 1]
          t == trace \o <<"Unlock:" \o err>>
      IN  IF p.fatal # NoFatal
            THEN UnlockOutcome(NoAccount, "", p.fatal, trace)
          ELSE IF err = NoErr
            THEN UnlockOutcome([Address |-> address, URL |-> "keyfile"], p.password,
                               NoFatal, t)
          ELSE IF err = AmbiguousAddrError
            THEN ambiguousAddrRecovery(ks.matches, address, p.password, t)
          ELSE IF err # ErrDecrypt
            THEN \* No need to prompt again if the error is not decryption-related.
              UnlockOutcome(NoAccount, "", "Failed to unlock account", t)
          ELSE unlockTrials(trials + 1, ks, address, i, passwords, t)

\* made is the error of utils.MakeAddress
UnlockAccount(made, ks, address, i, passwords) ==
  IF made # NoErr
    THEN UnlockOutcome(NoAccount, "", "Could not list accounts", <<>>)
    ELSE unlockTrials(0, ks, address, i, passwords, <<>>)

\* the keystores and consoles UnlockAccount is run with
KeyStores ==
  [unlock  : [1 .. MaxTrials -> UnlockResults],
   typed   : [1 .. MaxTrials -> {"pw1", "err"}],
   matches : [1 .. MaxMatches -> {NoErr, ErrDecrypt}]]

PasswordLists == {<<>>, <<"pw1">>, <<"pw1", "pw2">>}

CallUnlockAccount ==
  \E made \in {NoErr, ErrNoMatch}, ks \in KeyStores, i \in 0 .. 2,
     passwords \in PasswordLists :
    LET o == UnlockAccount(made, ks, "addr", i, passwords)
    IN  /\ last' = [op |-> "UnlockAccount",
                    arg |-> [made |-> made, i |-> i, passwords |-> passwords], params |-> NoParams, res |-> 0,
                    mgr |-> NilManager, err |-> o.fatal, trace |-> o.trace,
                    out |-> [account |-> o.account, password |-> o.password]]
        /\ UNCHANGED <<heap, infoFrame>>

NextUnlock == CallUnlockAccount

SpecUnlock == Init /\ [][NextUnlock]_vars

(***************************************************************************)
(* The init script kbnd with AUTO_RESTART_NODE=1: the auto restart daemon  *)
(* (a background shell running __auto_restart_daemon) and the stop         *)
(* command, one step per command that reads or changes a process or a pid  *)
(* file.  killproc and __pids_var_run are those of /etc/init.d/functions:  *)
(* they find a process through the pid file they are given.                *)
(***************************************************************************)
\* the most kbn processes launched
MaxStarts == 4

kbndFrame == <<stakingManager, onceVars, dataVars, subVars, callerVars, last>>

\* __pids_var_run $prog $pidfile: the pid of the pid file if that process
\* runs, else 0 (empty)
pidsVarRun == IF pidfile # 0 /\ pidfile \in nodes THEN pidfile ELSE 0

\* a kbn process ends by itself: what the daemon is there for
NodeDown ==
  \E p \in nodes :
    /\ nodes' = nodes \ {p}
    /\ UNCHANGED <<pidfile, daemonPc, daemonPidfile, stopPc, started, kbndFrame>>

\* lines 48-50: sleep 1; __pid_run; if [ -z "$pid" ]
AutoRestartDaemonPoll ==
  /\ daemonPc = "poll"
  /\ daemonPc' = IF pidsVarRun = 0 THEN "down" ELSE "poll"
  /\ UNCHANGED <<nodes, pidfile, daemonPidfile, stopPc, started, kbndFrame>>

\* lines 51-55: remove redundant pid file
AutoRestartDaemonRemovePidfile ==
  /\ daemonPc = "down"
  /\ pidfile' = 0
  /\ daemonPc' = "backoff"
  /\ UNCHANGED <<nodes, daemonPidfile, stopPc, started, kbndFrame>>

\* lines 56-58: sleep $backOffTime
AutoRestartDaemonBackoff ==
  /\ daemonPc = "backoff"
  /\ daemonPc' = "start_node"
  /\ UNCHANGED <<nodes, pidfile, daemonPidfile, stopPc, started, kbndFrame>>

\* start_node, lines 106-117: return if the node of the pid file runs
StartNodeCheck ==
  /\ daemonPc = "start_node"
  /\ daemonPc' = IF pidsVarRun # 0 THEN "restarted" ELSE "launch"
  /\ UNCHANGED <<nodes, pidfile, daemonPidfile, stopPc, started, kbndFrame>>

\* start_node, lines 151-153: $kbn ${OPTIONS} ... &; PIDNUM=$!
StartNodeLaunch ==
  /\ daemonPc = "launch"
  /\ started < MaxStarts
  /\ started' = started + 1
  /\ nodes' = nodes \cup {started + 1}
  /\ daemonPc' = "launched"
  /\ UNCHANGED <<pidfile, daemonPidfile, stopPc, kbndFrame>>

\* start_node, lines 155-163: echo $PIDNUM > ${pidfile}
StartNodeWritePidfile ==
  /\ daemonPc = "launched"
  /\ pidfile' = started
  /\ daemonPc' = "restarted"
  /\ UNCHANGED <<nodes, daemonPidfile, stopPc, started, kbndFrame>>

\* lines 60-66: the new backOffTime, and the loop again
AutoRestartDaemonRestarted ==
  /\ daemonPc = "restarted"
  /\ daemonPc' = "poll"
  /\ UNCHANGED <<nodes, pidfile, daemonPidfile, stopPc, started, kbndFrame>>

\* "kbnd stop" is run: stop, lines 187-188
StopBegin ==
  /\ stopPc \in {"idle", "done"}
  /\ stopPc' = "stop_auto_restart_daemon"
  /\ UNCHANGED <<nodes, pidfile, daemonPc, daemonPidfile, started, kbndFrame>>

\* stop_auto_restart_daemon, lines 87-93: killproc -p the daemon's pid file
\* ends the daemon where it is, and the pid file is removed
stop_auto_restart_daemon ==
  /\ stopPc = "stop_auto_restart_daemon"
  /\ daemonPc' = IF daemonPidfile THEN "dead" ELSE daemonPc
  /\ daemonPidfile' = FALSE
  /\ stopPc' = "stop_node"
  /\ UNCHANGED <<nodes, pidfile, started, kbndFrame>>

\* stop_node, lines 166-172: killproc -p ${pidfile} ends the process of the
\* pid file, if there is one, and the pid file is removed
stop_node ==
  /\ stopPc = "stop_node"
  /\ nodes' = nodes \ {pidsVarRun}
  /\ pidfile' = 0
  /\ stopPc' = "done"
  /\ UNCHANGED <<daemonPc, daemonPidfile, started, kbndFrame>>

NextKbnd ==
  \/ NodeDown
  \/ AutoRestartDaemonPoll
  \/ AutoRestartDaemonRemovePidfile
  \/ AutoRestartDaemonBackoff
  \/ StartNodeCheck
  \/ StartNodeLaunch
  \/ StartNodeWritePidfile
  \/ AutoRestartDaemonRestarted
  \/ StopBegin
  \/ stop_auto_restart_daemon
  \/ stop_node

SpecKbnd == Init /\ [][NextKbnd]_vars

(***************************************************************************)
(* Properties                                                              *)
(***************************************************************************)
Range(t) == {t[i] : i \in 1 .. Len(t)}

Count(t, e) == Cardinality({i \in 1 .. Len(t) : t[i] = e})

\* the position of the first e in t
First(t, e) == CHOOSE i \in 1 .. Len(t) : t[i] = e /\ \A j \in 1 .. (i - 1) : t[j] # e

IsResolve(call) == call.op \in {"GetStakingInfo", "GetStakingInfoOnStakingBlock"}

\* the staking block a resolution call is about
KeyOf(call) ==
  IF call.op = "GetStakingInfoOnStakingBlock"
    THEN call.arg
    ELSE CalcStakingBlockNumber(call.arg)

NilParams(p) == p.bc = "nil" \/ p.gh = "nil"

\* C1 (tiered resolution): a GetStakingInfoOnStakingBlock(k) on an interval
\* boundary k that finds neither the cache nor the store holding k, and whose
\* derivation and store write succeed, makes exactly one derivation and one
\* store write, in that order, and then adds the snapshot it returns to the
\* cache; a call that finds k in the cache returns the cached object and makes
\* no derivation, no store read and no store write.
TieredResolution ==
  [][(last'.op = "GetStakingInfoOnStakingBlock" /\ stakingManager # NilManager
        /\ IsStakingUpdateInterval(last'.arg)) =>
       LET k == last'.arg
           t == last'.trace
       IN  /\ (/\ ~cacheHas(stakingInfoCache, k)
               /\ k \notin DOMAIN store
               /\ "derive:err" \notin Range(t)
               /\ "dbWrite:err" \notin Range(t)) =>
                 /\ Count(t, "derive:ok") = 1
                 /\ Count(t, "dbWrite:ok") = 1
                 /\ Count(t, "cacheAdd") = 1
                 /\ First(t, "derive:ok") < First(t, "dbWrite:ok")
                 /\ First(t, "dbWrite:ok") < First(t, "cacheAdd")
                 /\ "dbRead:hit" \notin Range(t)
                 /\ last'.res # 0
                 /\ cacheObj(stakingInfoCache', k) = last'.res
                 /\ k \in DOMAIN store'
           /\ cacheHas(stakingInfoCache, k) =>
                 /\ last'.res = cacheObj(stakingInfoCache, k)
                 /\ cacheObj(stakingInfoCache', k) = last'.res
                 /\ Range(t) \cap {"derive:ok", "derive:err", "dbRead:hit", "dbRead:miss",
                                   "dbWrite:ok", "dbWrite:err"} = {}
                 /\ store' = store]_vars

\* C1 witness: a call was served from the cache, for a key the store holds
TieredResolutionWitness ==
  /\ last.op = "GetStakingInfoOnStakingBlock"
  /\ last.res # 0
  /\ last.trace[1] = "cacheGet:hit"
  /\ cacheObj(stakingInfoCache, last.arg) = last.res
  /\ last.arg \in DOMAIN store

\* C2 (always a meaningful Gini): whenever a resolution call returns a
\* snapshot with UseGini set and no minimum-staking query failed, the Gini of
\* the returned snapshot is CalcGiniCoefficientMinStake of it at the minimum
\* staking of its block.
AlwaysMeaningfulGini ==
  (IsResolve(last) /\ last.res # 0 /\ heap[last.res].UseGini
     /\ "govMinStaking:err" \notin Range(last.trace)) =>
    heap[last.res].Gini =
      CalcGiniCoefficientMinStake(GetConsolidatedStakingInfo(heap[last.res]),
                                  GetMinimumStakingAtNumber(heap[last.res].BlockNum))

\* C3 (the store holds the sentinel): every entry of the store decodes to a
\* snapshot with Gini = -1, and no step changes an entry the store holds, a
\* Gini fix-up of a cached or returned snapshot included.
StoreHoldsSentinel ==
  [][/\ \A k \in DOMAIN store' : DecodeRLP(store'[k]).Gini = DefaultGiniCoefficient
     /\ \A k \in DOMAIN store : k \in DOMAIN store' /\ store'[k] = store[k]]_vars

\* C3 witness: a snapshot was written, then fixed up to a computed Gini and
\* cached, and the store still holds the sentinel for it
StoreHoldsSentinelWitness ==
  /\ IsResolve(last)
  /\ {"dbWrite:ok", "calcGini"} \subseteq Range(last.trace)
  /\ last.res # 0
  /\ GiniGE0(heap[last.res].Gini)
  /\ KeyOf(last) \in DOMAIN store
  /\ DecodeRLP(store[KeyOf(last)]).Gini = DefaultGiniCoefficient

\* what C4 says of a state
MigrationChecked ==
  /\ (last.op = "CheckStakingInfoStored" /\ last.err = NoErr) =>
       CalcStakingBlockNumber(last.arg) \in DOMAIN store
  /\ last.op = "MigrationPrerequisite" =>
       LET checks == SelectSeq(last.trace, LAMBDA e : e \in {"check:ok", "check:err"})
       IN  /\ checks \in {<<"check:ok", "check:ok">>, <<"check:err">>,
                          <<"check:ok", "check:err">>}
           /\ last.err = NoErr <=> checks = <<"check:ok", "check:ok">>
           /\ last.err = NoErr =>
                /\ CalcStakingBlockNumber(last.arg) \in DOMAIN store
                /\ CalcStakingBlockNumber(last.arg + StakingUpdateInterval) \in DOMAIN store
           /\ checks = <<"check:err">> =>
                \* the error of the first check, and nothing of a second check
                /\ Count(last.trace, "dbRead:miss") = 1
                /\ Count(last.trace, "dbRead:hit") = 0
                /\ Count(last.trace, "derive:ok") + Count(last.trace, "derive:err") = 1
                /\ "dbWrite:err" \in Range(last.trace) => last.err = ErrDBWrite
                /\ "derive:err" \in Range(last.trace) =>
                     last.err \in {ErrBlockNotFound, ErrStateAt, ErrGovernance}

\* C4 (migration precondition): a CheckStakingInfoStored(b) that returns nil
\* leaves the snapshot of b's staking block in the store, and the store never
\* loses an entry, so two successful checks leave both; the registered
\* prerequisite returns nil exactly when both of its checks did, with both
\* snapshots stored, and returns the first check's error without a second
\* check when the first fails.
MigrationPrecondition ==
  [][/\ DOMAIN store \subseteq DOMAIN store'
     /\ MigrationChecked']_vars

\* C4 witness: the prerequisite returned nil after deriving and storing both
MigrationPreconditionWitness ==
  /\ last.op = "MigrationPrerequisite"
  /\ last.err = NoErr
  /\ Count(last.trace, "dbWrite:ok") = 2
  /\ CalcStakingBlockNumber(last.arg) # CalcStakingBlockNumber(last.arg + StakingUpdateInterval)

\* C5 (interval boundary shortcut): GetStakingInfoOnStakingBlock(n) for an n
\* that is not on the staking update interval returns nil, makes no access,
\* and leaves the cache, its objects and the store as they were.
IntervalBoundaryShortcut ==
  [][(last'.op = "GetStakingInfoOnStakingBlock"
        /\ (last'.arg % StakingUpdateInterval) # 0) =>
       /\ last'.res = 0
       /\ last'.trace = <<>>
       /\ stakingInfoCache' = stakingInfoCache
       /\ store' = store
       /\ \A id \in Live(stakingInfoCache, 0) : heap'[id] = heap[id]]_vars

\* C5 witness: the shortcut was taken while the cache and the store held data
IntervalBoundaryShortcutWitness ==
  /\ last.op = "GetStakingInfoOnStakingBlock"
  /\ (last.arg % StakingUpdateInterval) # 0
  /\ stakingManager # NilManager
  /\ Len(stakingInfoCache) > 0
  /\ DOMAIN store # {}

\* C6 (Gini fix-up idempotence): once an object's Gini is >= 0, no step
\* changes it; a cache hit on such an object makes no minimum-staking query
\* and no calculation; and fillMissingGiniCoefficient on it returns it as it
\* is, with no access, whatever the governance would answer.
GiniFixupIdempotent ==
  [][/\ \A id \in DOMAIN heap \cap DOMAIN heap' :
          GiniGE0(heap[id].Gini) => heap'[id].Gini = heap[id].Gini
     /\ \A id \in DOMAIN heap :
          GiniGE0(heap[id].Gini) =>
            \A fault \in Faults :
              fillMissingGiniCoefficient(fault, heap[id], heap[id].BlockNum)
                = [info |-> heap[id], err |-> NoErr, trace |-> <<>>]
     /\ (/\ IsResolve(last')
         /\ stakingManager # NilManager
         /\ cacheHas(stakingInfoCache, KeyOf(last'))
         /\ GiniGE0(heap[cacheObj(stakingInfoCache, KeyOf(last'))].Gini)) =>
          /\ last'.trace = <<"cacheGet:hit">>
          /\ last'.res = cacheObj(stakingInfoCache, KeyOf(last'))]_vars

\* C6 witness: a cache hit returned a snapshot whose Gini was already computed
GiniFixupIdempotentWitness ==
  /\ IsResolve(last)
  /\ last.trace = <<"cacheGet:hit">>
  /\ last.res # 0
  /\ heap[last.res].UseGini
  /\ GiniGE0(heap[last.res].Gini)

\* C7 (the Gini fill-in is the only mutation): no step changes a field other
\* than Gini of an object that stays referenced, no step changes the Gini of
\* an object with UseGini false, and every such object holds the sentinel.
OnlyGiniMutated ==
  [][/\ \A id \in DOMAIN heap \cap DOMAIN heap' :
          /\ [heap'[id] EXCEPT !.Gini = heap[id].Gini] = heap[id]
          /\ ~heap[id].UseGini => heap'[id].Gini = heap[id].Gini
     /\ \A id \in DOMAIN heap' :
          ~heap'[id].UseGini => heap'[id].Gini = DefaultGiniCoefficient]_vars

\* C7 witness: a cache hit on a snapshot with UseGini false: the fill-in ran
\* on the cached object and the object still holds the sentinel
OnlyGiniMutatedWitness ==
  /\ IsResolve(last)
  /\ last.res # 0
  /\ last.trace = <<"cacheGet:hit">>
  /\ ~heap[last.res].UseGini
  /\ heap[last.res].Gini = DefaultGiniCoefficient
  /\ stakingInfoCache # <<>>
  /\ stakingInfoCache[Len(stakingInfoCache)].obj = last.res

\* C8 (singleton construction): under any interleaving of NewStakingManager
\* calls, at most one StakingManager is built and at most one prerequisite is
\* registered; the instance is built from the parameters of the caller that
\* runs the function of once.Do; once set, stakingManager never changes; and
\* every call with non-nil collaborators returns that one instance, after it
\* was built and the prerequisite registered.
SingletonConstruction ==
  [][/\ constructed' <= 1
     /\ migrationPrerequisites' <= 1
     /\ stakingManager # NilManager => stakingManager' = stakingManager
     /\ \A c \in Callers :
          /\ (pc[c] = "construct" /\ pc'[c] = "register") =>
               stakingManager' = newStakingManager(args[c].bc, args[c].gh, args[c].db)
          /\ (pc[c] = "return" /\ pc'[c] = "idle" /\ ~NilParams(args[c])) =>
               /\ ret'[c] # NilManager
               /\ ret'[c] = stakingManager'
               /\ constructed' = 1
               /\ migrationPrerequisites' = 1
               /\ \A c2 \in Callers :
                    ret'[c2] # NilManager => ret'[c2] = ret'[c]]_vars

\* C8 witness: two callers with different parameters both returned, and both
\* hold the same instance
SingletonConstructionWitness ==
  \E c1 \in Callers, c2 \in Callers :
    /\ pc[c1] = "idle" /\ pc[c2] = "idle"
    /\ args[c1].bc = "bc1" /\ args[c1].gh = "gh1"
    /\ args[c2].bc = "bc2"
    /\ ret[c1] # NilManager
    /\ ret[c1] = ret[c2]
    /\ constructed = 1

\* C9 as claimed: a NewStakingManager call with a nil chain or a nil
\* governance helper returns nil.
NilCollaboratorYieldsNil ==
  (last.op = "NewStakingManager" /\ NilParams(last.params)) => last.mgr = NilManager

\* C9 as amended: a NewStakingManager call with a nil chain or a nil
\* governance helper builds nothing, registers nothing and leaves
\* stakingManager and the once as they were; it returns stakingManager as it
\* is: nil while no manager was built, the existing instance afterwards.
NilCollaboratorConstructsNothing ==
  [][(last'.op = "NewStakingManager" /\ NilParams(last'.params)) =>
       /\ stakingManager' = stakingManager
       /\ UNCHANGED onceVars
       /\ last'.mgr = stakingManager
       /\ constructed = 0 <=> last'.mgr = NilManager]_vars

\* C9 witness: such a call after the manager was built returned the instance
NilCollaboratorWitness ==
  /\ last.op = "NewStakingManager"
  /\ NilParams(last.params)
  /\ last.mgr # NilManager
  /\ last.mgr = stakingManager

\* C10 (no manager, no effect): while stakingManager is nil, GetStakingInfo and
\* GetStakingInfoOnStakingBlock return nil, CheckStakingInfoStored and
\* updateStakingInfo return ErrStakingManagerNotSet, StakingManagerSubscribe
\* and StakingManagerUnsubscribe return with no subscription made and no loop
\* started, handleChainHeadEvent returns before its loop, and none of them
\* makes an access or changes the cache, the store, the channel or the
\* subscription.
UnsetManagerNoOp ==
  [][stakingManager = NilManager =>
       /\ last'.op \in {"GetStakingInfo", "GetStakingInfoOnStakingBlock",
                        "CheckStakingInfoStored", "StakingManagerSubscribe",
                        "StakingManagerUnsubscribe"} =>
            /\ last'.res = 0
            /\ last'.trace = <<>>
            /\ UNCHANGED <<stakingManager, onceVars, dataVars, subVars>>
            /\ chainHeadSub' = 0 /\ loops' = <<>>
       /\ last'.op = "CheckStakingInfoStored" => last'.err = ErrStakingManagerNotSet
       /\ \A blockNum \in BlockNums, fault \in Faults :
            updateStakingInfo(stakingManager, Data, fault, blockNum)
              = Outcome(Data, 0, ErrStakingManagerNotSet, <<>>)
       /\ handleChainHeadEventStart(stakingManager, chainHeadSub) = "return"]_vars

\* C10 witness: CheckStakingInfoStored was called with no manager set
UnsetManagerNoOpWitness ==
  /\ stakingManager = NilManager
  /\ last.op = "CheckStakingInfoStored"
  /\ last.err = ErrStakingManagerNotSet

DeriveErr(fault) ==
  CASE fault = "noBlock"   -> ErrBlockNotFound
    [] fault = "noState"   -> ErrStateAt
    [] fault = "noUseGini" -> ErrGovernance

\* C11 (recompute failure): a call whose derivation fails returns no snapshot
\* and leaves the cache, its objects and the store as they were;
\* CheckStakingInfoStored returns the error of the derivation; and for the
\* block a call is made with and every derivation fault, updateStakingInfo
\* returns (nil, that error), GetStakingInfoOnStakingBlock on a
\* cache-and-store miss returns nil and CheckStakingInfoStored on a store
\* miss returns that error, each leaving the data untouched.
RecomputeFailure ==
  [][/\ (/\ last'.op \in {"GetStakingInfo", "GetStakingInfoOnStakingBlock",
                          "CheckStakingInfoStored"}
         /\ "derive:err" \in Range(last'.trace)) =>
          /\ last'.res = 0
          /\ stakingInfoCache' = stakingInfoCache
          /\ store' = store
          /\ \A id \in Live(stakingInfoCache, 0) : heap'[id] = heap[id]
          /\ IsResolve(last') => last'.err = NoErr
          /\ last'.op = "CheckStakingInfoStored" =>
               last'.err \in {DeriveErr(fault) : fault \in DeriveFaults}
     /\ (/\ stakingManager # NilManager
         /\ last'.op \in {"GetStakingInfo", "GetStakingInfoOnStakingBlock",
                          "CheckStakingInfoStored"}) =>
          \A blockNum \in {last'.arg}, fault \in DeriveFaults :
            /\ updateStakingInfo(stakingManager, Data, fault, blockNum)
                 = Outcome(Data, 0, DeriveErr(fault), <<"derive:err">>)
            /\ (/\ IsStakingUpdateInterval(blockNum)
                /\ ~cacheHas(stakingInfoCache, blockNum)
                /\ blockNum \notin DOMAIN store) =>
                 GetStakingInfoOnStakingBlock(stakingManager, Data, fault, blockNum)
                   = Outcome(Data, 0, NoErr,
                             <<"cacheGet:miss", "dbRead:miss", "derive:err">>)
            /\ CalcStakingBlockNumber(blockNum) \notin DOMAIN store =>
                 CheckStakingInfoStored(stakingManager, Data, fault, blockNum)
                   = Outcome(Data, 0, DeriveErr(fault), <<"dbRead:miss", "derive:err">>)]_vars

\* C11 witness: CheckStakingInfoStored returned the error of a state that
\* could not be opened, while the cache and the store held other snapshots
RecomputeFailureWitness ==
  /\ last.op = "CheckStakingInfoStored"
  /\ last.err = ErrStateAt
  /\ last.trace = <<"dbRead:miss", "derive:err">>
  /\ stakingInfoCache # <<>>
  /\ DOMAIN store # {}
  /\ CalcStakingBlockNumber(last.arg) \notin DOMAIN store

\* C12 (a failed store write does not fail the read): a resolution call whose
\* store write fails returns the derived snapshot, CheckStakingInfoStored
\* returns the write error, and neither the cache nor the store gets the
\* key; and a resolution call for a key that neither holds looks in both,
\* derives again and, the derivation succeeding, writes to the store again.
PersistenceFailureNonFatal ==
  [][/\ (/\ last'.op \in {"GetStakingInfo", "GetStakingInfoOnStakingBlock",
                          "CheckStakingInfoStored"}
         /\ "dbWrite:err" \in Range(last'.trace)) =>
          LET k == KeyOf(last')
          IN  /\ IsResolve(last') =>
                   /\ last'.res # 0
                   /\ heap'[last'.res] = getStakingInfoFromAddressBook("none", k).info
                   /\ last'.err = NoErr
              /\ last'.op = "CheckStakingInfoStored" =>
                   last'.res = 0 /\ last'.err = ErrDBWrite
              /\ stakingInfoCache' = stakingInfoCache
              /\ ~cacheHas(stakingInfoCache', k)
              /\ store' = store
              /\ k \notin DOMAIN store'
     /\ (/\ IsResolve(last')
         /\ stakingManager # NilManager
         /\ IsStakingUpdateInterval(KeyOf(last'))
         /\ ~cacheHas(stakingInfoCache, KeyOf(last'))
         /\ KeyOf(last') \notin DOMAIN store) =>
          LET t == last'.trace
          IN  /\ Len(t) >= 3
              /\ SubSeq(t, 1, 2) = <<"cacheGet:miss", "dbRead:miss">>
              /\ t[3] \in {"derive:ok", "derive:err"}
              /\ t[3] = "derive:ok" =>
                   Len(t) >= 4 /\ t[4] \in {"dbWrite:ok", "dbWrite:err"}]_vars

\* C12 witness: a resolution call returned a snapshot that uses the Gini
\* although its store write failed; neither the cache nor the store has it
PersistenceFailureWitness ==
  /\ IsResolve(last)
  /\ last.trace = <<"cacheGet:miss", "dbRead:miss", "derive:ok", "dbWrite:err">>
  /\ last.res # 0
  /\ heap[last.res].UseGini
  /\ ~cacheHas(stakingInfoCache, KeyOf(last))
  /\ KeyOf(last) \notin DOMAIN store

\* what one GetStakingInfoOnStakingBlock(k) makes of an empty cache and store
SequentialResult(k) ==
  GetStakingInfoOnStakingBlock(stakingManager,
                               [heap |-> <<>>, cache |-> <<>>, store |-> <<>>], "none", k)

\* C13 (concurrent misses are an idempotent race): under every interleaving
\* of the callers, every snapshot a caller has returned has the field values
\* a single call would have returned; and when no call is under way after one
\* returned, the store holds what a single call would have stored and the
\* cache holds one cell for the key, on a snapshot with the same values.
ConcurrentMissesConverge ==
  \A c \in Callers :
    (readers[c].pc = "idle" /\ readers[c].obj # 0) =>
      LET k   == readers[c].key
          seq == SequentialResult(k)
      IN  /\ heap[readers[c].obj] = seq.heap[seq.res]
          /\ (\A c2 \in Callers : readers[c2].pc = "idle") =>
               /\ store = seq.store
               /\ Cardinality(cacheIndex(stakingInfoCache, k)) = 1
               /\ Len(stakingInfoCache) = 1
               /\ heap[cacheObj(stakingInfoCache, k)] = seq.heap[seq.res]

\* C13 witness: two callers both derived from the address book and returned
\* two objects with the same values, whose Gini was filled in
ConcurrentMissesWitness ==
  \E c1 \in Callers, c2 \in Callers :
    /\ readers[c1].pc = "idle" /\ readers[c2].pc = "idle"
    /\ readers[c1].path = "update" /\ readers[c2].path = "update"
    /\ readers[c1].obj # 0 /\ readers[c2].obj # 0
    /\ readers[c1].obj # readers[c2].obj
    /\ heap[readers[c1].obj] = heap[readers[c2].obj]
    /\ GiniGE0(heap[readers[c1].obj].Gini)

\* C14 (the Gini write is free of races): no state has a caller about to
\* write the Gini of a StakingInfo while another caller is about to read or
\* write the Gini of the same StakingInfo.
GiniWriteRaceFree ==
  \A c1 \in Callers, c2 \in Callers :
    (c1 # c2 /\ readers[c1].pc = "fillWrite"
       /\ readers[c2].pc \in {"fillCheck", "fillWrite"}) =>
      readers[c1].obj # readers[c2].obj

\* the goroutines that are inside handleChainHeadEvent
RunningLoops == {i \in 1 .. Len(loops) : loops[i] \in {"start", "select", "defer"}}

LiveSubs == {i \in 1 .. Len(subs) : subs[i] = "live"}

\* the Err channel of the subscription chainHeadSub holds is closed
SubClosed == chainHeadSub # 0 /\ subs[chainHeadSub] = "closed"

\* the Err channel the select of goroutine i waits on is closed
ErrReady(i) == selectSub[i] # 0 /\ subs[selectSub[i]] = "closed"

\* the step takes an event from chainHeadChan
IsReceive == received' = received + 1

\* C15 (one background prefetch task): at most one handleChainHeadEvent loop
\* runs and at most one subscription of the manager delivers, at any time.
OnePrefetchTask ==
  /\ Cardinality(RunningLoops) <= 1
  /\ Cardinality(LiveSubs) <= 1

\* C16 (a failed prefetch does not stop the loop): a step that takes an event
\* sends the goroutine that took it back to the top of its for loop, whatever
\* GetStakingInfo returned, leaves the other goroutines where they are and
\* leaves the subscriptions alone; and a goroutine returns only from its
\* select and only by the closed Err channel it waits on, so that a goroutine
\* whose subscription delivers comes back to take the next event.
PrefetchFailureKeepsLoop ==
  [][/\ IsReceive =>
          /\ last'.op = "handleChainHeadEvent"
          /\ \E i \in 1 .. Len(loops) :
               /\ loops[i] = "select"
               /\ loops' = [loops EXCEPT ![i] = "start"]
          /\ subs' = subs /\ chainHeadSub' = chainHeadSub
          /\ chainHeadChan' = Tail(chainHeadChan)
     /\ \A i \in 1 .. Len(loops) :
          /\ (loops[i] = "start" /\ loops'[i] # "start") => loops'[i] = "select"
          /\ (loops[i] = "select" /\ loops'[i] \notin {"select", "start"}) =>
               ErrReady(i) /\ ~IsReceive /\ loops'[i] = "defer"]_vars

\* C16 witness: the prefetch of an event failed in the derivation; the
\* goroutine is back at the top of its for loop, the subscription delivers
\* and the next event waits
PrefetchFailureWitness ==
  /\ last.op = "handleChainHeadEvent"
  /\ last.res = 0
  /\ "derive:err" \in Range(last.trace)
  /\ chainHeadSub # 0
  /\ subs[chainHeadSub] = "live"
  /\ loops[chainHeadSub] = "start"
  /\ received = 1
  /\ chainHeadChan # <<>>

\* C17 (prefetch target and policy gate): a step that takes the event of
\* block n either runs, under the WeightedRandom policy, exactly one
\* GetStakingInfo(n + StakingUpdateInterval), whose snapshot is in the cache
\* afterwards when it returned one and no store write failed, or, under
\* another policy, makes no access and leaves the cache, its objects and the
\* store as they were.
PrefetchTargetAndGate ==
  [][IsReceive =>
       LET n == Head(chainHeadChan)
           t == last'.trace
       IN  /\ last'.op = "handleChainHeadEvent"
           /\ last'.arg = n
           /\ \/ /\ t[1] = "policy:WeightedRandom"
                 /\ Count(t, "GetStakingInfo") = 1
                 /\ \E fault \in Faults :
                      LET o == GetStakingInfo(stakingManager, Data, fault,
                                              n + StakingUpdateInterval)
                      IN  /\ t = <<"policy:WeightedRandom", "GetStakingInfo">> \o o.trace
                          /\ last'.res = o.res
                          /\ stakingInfoCache' = o.cache
                          /\ store' = o.store
                          /\ o.res # 0 => heap'[o.res] = o.heap[o.res]
                 /\ (last'.res # 0 /\ "dbWrite:err" \notin Range(t)) =>
                      /\ cacheObj(stakingInfoCache',
                                  CalcStakingBlockNumber(n + StakingUpdateInterval))
                           = last'.res
                      /\ heap'[last'.res].BlockNum
                           = CalcStakingBlockNumber(n + StakingUpdateInterval)
              \/ /\ t = <<"policy:other">>
                 /\ last'.res = 0
                 /\ stakingInfoCache' = stakingInfoCache
                 /\ store' = store
                 /\ \A id \in Live(stakingInfoCache, 0) : heap'[id] = heap[id]]_vars

\* C17 witness: an event of block n made the loop derive and cache the
\* snapshot of the staking block of n + StakingUpdateInterval, which is not
\* the staking block of n
PrefetchTargetWitness ==
  /\ last.op = "handleChainHeadEvent"
  /\ last.res # 0
  /\ last.trace[1] = "policy:WeightedRandom"
  /\ "derive:ok" \in Range(last.trace)
  /\ CalcStakingBlockNumber(last.arg + StakingUpdateInterval)
       # CalcStakingBlockNumber(last.arg)
  /\ cacheObj(stakingInfoCache, CalcStakingBlockNumber(last.arg + StakingUpdateInterval))
       = last.res

\* C18 (loop termination): once the subscription a goroutine was started
\* for is closed, that goroutine returns from handleChainHeadEvent, under the
\* fairness of SpecLoopFair.
LoopTerminates ==
  \A i \in 1 .. MaxSubscribe :
    (i <= Len(subs) /\ subs[i] = "closed" /\ loops[i] \in {"start", "select"})
      ~> (i <= Len(loops) /\ loops[i] \in {"defer", "exited"})

UnsubscribeIdempotent ==
  [][LET once  == StakingManagerUnsubscribe(stakingManager, chainHeadSub, subs)
         twice == StakingManagerUnsubscribe(stakingManager, chainHeadSub, once)
     IN  /\ twice = once
         /\ (stakingManager = NilManager \/ chainHeadSub = 0) => once = subs
         /\ (stakingManager # NilManager /\ chainHeadSub # 0) =>
              /\ once[chainHeadSub] = "closed"
              /\ \A j \in 1 .. Len(subs) : j # chainHeadSub => once[j] = subs[j]
         /\ subs' # subs => subs' = Append(subs, "live") \/ subs' = once
         /\ \A i \in 1 .. Len(loops) :
              (loops[i] = "defer" /\ loops'[i] = "exited") =>
                /\ subs' = once
                /\ SubClosed => subs' = subs]_vars

\* C20 witness: the subscription was closed by a call, and the loop has
\* returned and run its deferred call on the closed subscription
UnsubscribeIdempotentWitness ==
  /\ last.op = "StakingManagerUnsubscribe"
  /\ SubClosed
  /\ loops[chainHeadSub] = "exited"
  /\ Len(subs) = 1

(***************************************************************************)
(* The methods of a snapshot                                               *)
(***************************************************************************)
\* C21 (serialization round trip): encoding the given snapshot and decoding
\* the encoding gives a snapshot equal to it in every field, whatever its
\* Gini is; the encoding carries the Gini as an unsigned bit pattern.
RlpRoundTrip ==
  last.op = "EncodeRLP/DecodeRLP" =>
    LET s   == heap[1]
        dec == last.out
    IN  /\ dec.BlockNum = s.BlockNum
        /\ dec.CouncilNodeAddrs = s.CouncilNodeAddrs
        /\ dec.CouncilStakingAddrs = s.CouncilStakingAddrs
        /\ dec.CouncilRewardAddrs = s.CouncilRewardAddrs
        /\ dec.KIRAddr = s.KIRAddr
        /\ dec.PoCAddr = s.PoCAddr
        /\ dec.UseGini = s.UseGini
        /\ dec.CouncilStakingAmounts = s.CouncilStakingAmounts
        /\ dec.Gini = s.Gini
        /\ dec = s
        /\ last.arg.Gini >= 0
        /\ last.arg.Gini = Float64bits(s.Gini)

\* C21 witness: a snapshot with the negative sentinel as Gini and a council
\* went through the round trip; its bit pattern has the sign bit set
RlpRoundTripWitness ==
  /\ last.op = "EncodeRLP/DecodeRLP"
  /\ heap[1].Gini = DefaultGiniCoefficient
  /\ heap[1].CouncilNodeAddrs # <<>>
  /\ last.arg.Gini >= SignBit
  /\ last.out.Gini = DefaultGiniCoefficient

\* the positions of the snapshot s that hold the reward address r
RewardPositions(s, r) ==
  {i \in 1 .. Len(s.CouncilRewardAddrs) : s.CouncilRewardAddrs[i] = r}

\* the m-th smallest element of a set of positions
NthPosition(idx, m) == CHOOSE i \in idx : Cardinality({j \in idx : j <= i}) = m

RECURSIVE SumAmounts(_, _)
SumAmounts(s, idx) ==
  IF idx = {}
    THEN 0
    ELSE LET i == CHOOSE j \in idx : TRUE
         IN  s.CouncilStakingAmounts[i] + SumAmounts(s, idx \ {i})

\* C22 (consolidation grouping): the consolidated nodes of the given snapshot
\* are one per reward address, in the order in which the reward addresses
\* first appear; each lists the node and staking addresses of the positions
\* with its reward address, in order, and holds the sum of their amounts.
\* The example of the claim is one instance.
ConsolidationGroups ==
  /\ last.op = "GetConsolidatedStakingInfo" =>
       LET s == heap[1]
           c == last.out
       IN  /\ {c[k].RewardAddr : k \in 1 .. Len(c)} = Range(s.CouncilRewardAddrs)
           /\ \A k, l \in 1 .. Len(c) :
                k < l =>
                  /\ c[k].RewardAddr # c[l].RewardAddr
                  /\ NthPosition(RewardPositions(s, c[k].RewardAddr), 1)
                       < NthPosition(RewardPositions(s, c[l].RewardAddr), 1)
           /\ \A k \in 1 .. Len(c) :
                LET idx == RewardPositions(s, c[k].RewardAddr)
                IN  /\ Len(c[k].NodeAddrs) = Cardinality(idx)
                    /\ Len(c[k].StakingAddrs) = Cardinality(idx)
                    /\ \A m \in 1 .. Cardinality(idx) :
                         /\ c[k].NodeAddrs[m] = s.CouncilNodeAddrs[NthPosition(idx, m)]
                         /\ c[k].StakingAddrs[m]
                              = s.CouncilStakingAddrs[NthPosition(idx, m)]
                    /\ c[k].StakingAmount = SumAmounts(s, idx)
  /\ GetConsolidatedStakingInfo(
       [CouncilNodeAddrs      |-> <<"N1", "N2", "N3">>,
        CouncilStakingAddrs   |-> <<"S1", "S2", "S3">>,
        CouncilRewardAddrs    |-> <<"R1", "R1", "R3">>,
        CouncilStakingAmounts |-> <<5, 7, 3>>])
       = <<[NodeAddrs |-> <<"N1", "N2">>, StakingAddrs |-> <<"S1", "S2">>,
            RewardAddr |-> "R1", StakingAmount |-> 12],
           [NodeAddrs |-> <<"N3">>, StakingAddrs |-> <<"S3">>,
            RewardAddr |-> "R3", StakingAmount |-> 3]>>

\* C22 witness: a council whose first and last registration share a reward
\* address, with another one between them, was consolidated into two nodes
ConsolidationWitness ==
  /\ last.op = "GetConsolidatedStakingInfo"
  /\ heap[1].CouncilRewardAddrs = <<"R1", "R3", "R1">>
  /\ heap[1].CouncilStakingAmounts = <<3, 5, 5>>
  /\ Len(last.out) = 2
  /\ last.out[1].StakingAmount = 8
  /\ Len(last.out[1].NodeAddrs) = 2

\* the Gini values of the range [0, 1], in hundredths
UnitRange == 0 .. 100

\* C23 (Gini range): CalcGiniCoefficient of a non-empty sequence of amounts
\* is in [0, 1], and CalcGiniCoefficientMinStake is the sentinel or in [0, 1].
GiniInUnitRange ==
  /\ (last.op = "CalcGiniCoefficient" /\ last.arg # <<>>) =>
       last.out.result \in UnitRange
  /\ last.op = "CalcGiniCoefficientMinStake" =>
       last.out \in UnitRange \cup {DefaultGiniCoefficient}

\* the sum over the pairs i < j of |x[i] - x[j]|
PairDifferences(x) ==
  LET pairs == {p \in (1 .. Len(x)) \X (1 .. Len(x)) : p[1] < p[2]}
      abs(p) == IF x[p[1]] >= x[p[2]] THEN x[p[1]] - x[p[2]] ELSE x[p[2]] - x[p[1]]
      RECURSIVE sum(_)
      sum(ps) == IF ps = {}
                   THEN 0
                   ELSE LET p == CHOOSE q \in ps : TRUE IN abs(p) + sum(ps \ {p})
  IN  sum(pairs)

RECURSIVE Total(_)
Total(x) == IF x = <<>> THEN 0 ELSE Head(x) + Total(Tail(x))

\* the discrete Gini of x, in hundredths, rounded half away from zero
GiniReference(x) ==
  LET d == Len(x) * Total(x)
  IN  (200 * PairDifferences(x) + d) \div (2 * d)

\* the orders in which the values of x can be given
Reorderings(x) ==
  {[i \in 1 .. Len(x) |-> x[p[i]]] : p \in Permutations(1 .. Len(x))}

\* C24 (Gini reference): CalcGiniCoefficient of a non-empty sequence with a
\* positive total is the discrete Gini, rounded to two decimals, and is the
\* same for every order of the values; [1,1,1,1] gives 0, [0,0,0,10] 0.75.
GiniIsDiscreteGini ==
  /\ (last.op = "CalcGiniCoefficient" /\ last.arg # <<>> /\ Total(last.arg) > 0) =>
       /\ last.out.result = GiniReference(last.arg)
       /\ \A y \in Reorderings(last.arg) : CalcGiniCoefficient(y) = last.out.result
  /\ CalcGiniCoefficient(<<1, 1, 1, 1>>) = 0
  /\ CalcGiniCoefficient(<<0, 0, 0, 10>>) = 75

\* C24 witness: the Gini of amounts that were not given in ascending order
GiniReferenceWitness ==
  /\ last.op = "CalcGiniCoefficient"
  /\ last.arg = <<5, 0, 3>>
  /\ last.out.result = 42

\* the sum of the amounts registered under each reward address of s
RewardTotal(s, r) == SumAmounts(s, RewardPositions(s, r))

\* C25 (Gini floor): CalcGiniCoefficientMinStake(minStake) is the sentinel
\* when no reward address has a total of minStake or more, and else the Gini
\* of the totals of exactly the reward addresses that have; with minStake 0
\* these are all reward addresses.
GiniFloor ==
  last.op = "CalcGiniCoefficientMinStake" =>
    LET s         == heap[1]
        minStake  == last.arg
        qualified == {r \in Range(s.CouncilRewardAddrs) : RewardTotal(s, r) >= minStake}
        order     == CHOOSE q \in [1 .. Cardinality(qualified) -> qualified] :
                       \A r \in qualified : \E i \in DOMAIN q : q[i] = r
        totals    == [i \in 1 .. Cardinality(qualified) |-> RewardTotal(s, order[i])]
    IN  /\ minStake = 0 => qualified = Range(s.CouncilRewardAddrs)
        /\ qualified = {} => last.out = DefaultGiniCoefficient
        /\ qualified # {} => last.out = CalcGiniCoefficient(totals)

\* C25 witness: two registrations of one reward address, each below the
\* floor and together above it, counted as one value
GiniFloorWitness ==
  /\ last.op = "CalcGiniCoefficientMinStake"
  /\ last.arg = 6
  /\ heap[1].CouncilRewardAddrs = <<"R1", "R1">>
  /\ heap[1].CouncilStakingAmounts = <<3, 5>>
  /\ last.out = 0

\* C26 (the Gini calculator has no side effects): the slice of the caller
\* holds after the call what it held before.
GiniInputUntouched ==
  last.op = "CalcGiniCoefficient" => last.out.stakingAmount = last.arg

\* C27 (node-address lookup): GetIndexByNodeAddress returns the smallest
\* index (0-based) that holds the address and no error, or -1 and
\* ErrAddrNotInStakingInfo; GetStakingAmountByNodeId returns the amount at
\* that index, or 0 and the error; neither changes the snapshot.
LookupTypedMiss ==
  [][last'.op \in {"GetIndexByNodeAddress", "GetStakingAmountByNodeId"} =>
       LET s    == heap[1]
           hits == {i \in 1 .. Len(s.CouncilNodeAddrs) :
                      s.CouncilNodeAddrs[i] = last'.arg}
       IN  /\ heap' = heap
           /\ hits = {} =>
                /\ last'.err = ErrAddrNotInStakingInfo
                /\ last'.op = "GetIndexByNodeAddress" => last'.out = -1
                /\ last'.op = "GetStakingAmountByNodeId" => last'.out = 0
           /\ hits # {} =>
                /\ last'.err = NoErr
                /\ last'.op = "GetIndexByNodeAddress" =>
                     /\ last'.out + 1 \in hits
                     /\ \A i \in hits : last'.out + 1 <= i
                /\ last'.op = "GetStakingAmountByNodeId" =>
                     last'.out = s.CouncilStakingAmounts[NthPosition(hits, 1)]]_vars

\* C27 witness: the amount of an address that no registration of a council
\* holds was asked for
LookupMissWitness ==
  /\ last.op = "GetStakingAmountByNodeId"
  /\ last.arg = "N9"
  /\ Len(heap[1].CouncilNodeAddrs) = MaxCouncil
  /\ last.err = ErrAddrNotInStakingInfo
  /\ last.out = 0

\* C30 (derived snapshot amounts): a snapshot newStakingInfo returns has one
\* amount per staking address, the balance in KLAY or the cap if that is
\* less, the sentinel as Gini, the governance flag of the block as UseGini
\* and the block number asked for.
DerivedAmounts ==
  (last.op = "newStakingInfo" /\ last.err = NoErr) =>
    LET stakingAddrs == heap[1].CouncilStakingAddrs
        info         == last.out
    IN  /\ info.BlockNum = last.arg
        /\ info.Gini = DefaultGiniCoefficient
        /\ info.UseGini = UseGiniCoeffAt(last.arg)
        /\ info.CouncilStakingAddrs = stakingAddrs
        /\ Len(info.CouncilStakingAmounts) = Len(stakingAddrs)
        /\ \A i \in 1 .. Len(stakingAddrs) :
             LET klay == GetBalance(last.arg, stakingAddrs[i]) \div KLAY
             IN  /\ info.CouncilStakingAmounts[i] <= maxStakingLimit
                 /\ info.CouncilStakingAmounts[i]
                      = IF klay <= maxStakingLimit THEN klay ELSE maxStakingLimit

\* C30 witness: a snapshot with an amount at the cap, its balance being more,
\* and one below it
DerivedAmountsWitness ==
  /\ last.op = "newStakingInfo"
  /\ last.err = NoErr
  /\ Len(last.out.CouncilStakingAmounts) >= 2
  /\ GetBalance(last.arg, "S1") \div KLAY > maxStakingLimit
  /\ last.out.CouncilStakingAmounts[1] = maxStakingLimit
  /\ last.out.CouncilStakingAmounts[2] < maxStakingLimit

CacheEntriesDurable ==
  \A i \in 1 .. Len(stakingInfoCache) : stakingInfoCache[i].key \in DOMAIN store

\* C31 witness: the cache holds a snapshot that a call derived and wrote to
\* the store while another snapshot was in the store already
CacheEntriesDurableWitness ==
  /\ stakingInfoCache # <<>>
  /\ "dbWrite:ok" \in Range(last.trace)
  /\ Cardinality(DOMAIN store) >= 2
  /\ \E i \in 1 .. Len(stakingInfoCache) : stakingInfoCache[i].key = KeyOf(last)

\* the attempts of an UnlockAccount: its calls of ks.Unlock(account, password)
UnlockEvents == {"Unlock:" \o r : r \in UnlockResults}

Attempts(call) == SelectSeq(call.trace, LAMBDA e : e \in UnlockEvents)

Recoveries(call) == SelectSeq(call.trace, LAMBDA e : e \notin UnlockEvents)

\* what C32 says of the attempts: at most three, each after a decryption
\* failure of the one before, and a return at the attempt that succeeds or
\* that resolves an ambiguous address
UnlockAttempts(call) ==
  LET att == Attempts(call)
      rec == Recoveries(call)
      n   == Len(att)
  IN  /\ n <= MaxTrials
      /\ \A j \in 1 .. (n - 1) : att[j] = "Unlock:" \o ErrDecrypt
      /\ (n > 0 /\ att[n] = "Unlock:" \o NoErr) =>
           /\ call.err = NoFatal
           /\ call.out.account = [Address |-> "addr", URL |-> "keyfile"]
      /\ (n > 0 /\ att[n] = "Unlock:" \o AmbiguousAddrError /\ ("recover:" \o NoErr) \in Range(rec)) =>
           /\ call.err = NoFatal
           /\ rec[Len(rec)] = "recover:" \o NoErr
           /\ Count(rec, "recover:" \o NoErr) = 1
           /\ call.out.account = [Address |-> "addr", URL |-> "match" \o ToString(Len(rec))]
      /\ call.err = NoFatal =>
           /\ n > 0
           /\ \/ att[n] = "Unlock:" \o NoErr
              \/ att[n] = "Unlock:" \o AmbiguousAddrError /\ ("recover:" \o NoErr) \in Range(rec)
           /\ call.out.password
                = getPassPhrase("pw1", call.arg.i, call.arg.passwords).password
      /\ (n = 0 \/ att[n] # "Unlock:" \o AmbiguousAddrError) => rec = <<>>

\* C32 as stated: the attempts are as above, and an UnlockAccount in which no
\* attempt succeeded ends in the fatal 'Failed to unlock account'
UnlockFailsWithOneMessage ==
  last.op = "UnlockAccount" =>
    /\ UnlockAttempts(last)
    /\ last.err # NoFatal => last.err = "Failed to unlock account"

\* C32 (bounded retries): the attempts are as above, and an UnlockAccount in
\* which no attempt succeeded returns no account and ends in a fatal outcome:
\* 'Could not list accounts' before any attempt, 'Failed to read passphrase'
\* at a prompt, 'None of the listed files could be unlocked.' for an ambiguous
\* address that no key file resolves, and 'Failed to unlock account' after
\* three decryption failures or one other error.
UnlockRetriesBounded ==
  last.op = "UnlockAccount" =>
    LET att == Attempts(last)
        rec == Recoveries(last)
        n   == Len(att)
    IN  /\ UnlockAttempts(last)
        /\ last.err # NoFatal =>
             /\ last.out = [account |-> NoAccount, password |-> ""]
             /\ last.err \in {"Could not list accounts", "Failed to read passphrase",
                              "None of the listed files could be unlocked.",
                              "Failed to unlock account"}
        /\ last.err = "Could not list accounts" <=> last.arg.made # NoErr
        /\ last.err = "Could not list accounts" => n = 0
        /\ last.err = "Failed to read passphrase" =>
             /\ last.arg.passwords = <<>>
             /\ n < MaxTrials
        /\ last.err = "None of the listed files could be unlocked." <=>
             /\ n > 0
             /\ att[n] = "Unlock:" \o AmbiguousAddrError
             /\ Len(rec) = MaxMatches
             /\ \A j \in 1 .. Len(rec) : rec[j] = "recover:" \o ErrDecrypt
        /\ last.err = "Failed to unlock account" <=>
             /\ n > 0
             /\ \/ n = MaxTrials /\ att[n] = "Unlock:" \o ErrDecrypt
                \/ att[n] = "Unlock:" \o ErrNoMatch

\* C32 witness: after a decryption failure the address was ambiguous and the
\* password unlocked none of its key files
UnlockRetriesWitness ==
  /\ last.op = "UnlockAccount"
  /\ Len(Attempts(last)) = 2
  /\ Len(Recoveries(last)) = MaxMatches
  /\ last.err = "None of the listed files could be unlocked."

\* C33 (kbnd stop is final under auto-restart): once stop has completed, no
\* node process is running and the daemon, which could start one, is gone.
StopIsFinal ==
  stopPc = "done" => (nodes = {} /\ daemonPc = "dead")

=============================================================================
